---- MODULE Spec2Model ----
(***************************************************************************)
(* gitsync: the GitHub installation-token cache                            *)
(* (preoccupied/gitsync/github.py), the sync engine                        *)
(* (preoccupied/gitsync/gitsync.py), the configuration                    *)
(* (preoccupied/gitsync/config.py) and the webhook endpoint                *)
(* (preoccupied/gitsync/app.py).                                           *)
(*                                                                         *)
(* Callers are asyncio coroutines on one event loop.  A coroutine runs     *)
(* until it really suspends; "async with _cache_lock" does not suspend     *)
(* when the lock is free, and the lock is only ever held across code       *)
(* without an await, so the only suspension of                             *)
(* github_installation_token is the HTTP POST.  One call is therefore      *)
(* two atomic segments: lines 43-82 (validate, sample now, lookup,         *)
(* key-file read, send the POST) and lines 82-103 (response, parse,        *)
(* store, return).  Time is in epoch seconds.                              *)
(*                                                                         *)
(* sync_git_repo suspends once per git process: a coroutine runs from the  *)
(* exit of one process to the start of the next.  A git process acts on    *)
(* the working copy when it exits.                                         *)
(*                                                                         *)
(* The specifications share the variables.  SpecSeq has one caller of the  *)
(* token cache and the whole time grid; Spec has two concurrent callers    *)
(* and the part of the grid around the freshness boundary.  SpecSync has   *)
(* one caller of sync_git_repo, SpecApp two concurrent requests to         *)
(* POST /sync/{name}.  The variable world holds which.                     *)
(***************************************************************************)
EXTENDS Integers, Sequences, FiniteSets, TLC

VARIABLES
    world,        \* the callers, instants and arguments of this specification
    clock,        \* wall clock, epoch seconds
    token_cache,  \* _token_cache: cache_key -> [token, expires_at]
    cache_lock,   \* _cache_lock: "free" or the caller holding it
    pc,           \* where each caller is: "idle", "post", "resp"
    call,         \* the locals of each caller's call in progress
    post_count,   \* client.post call count
    issued,       \* how many tokens the endpoint has issued
    ret,          \* what the last step did, if it was a step of a call:
                  \* returned a token, raised, or sent the POST
    lastMint,     \* per pair: <<the token>> the latest call for the pair
                  \* returned, << >> when it raised instead
    remote,       \* the repository behind git_url: its branches' tips
    fs,           \* the file system: per directory, the working copy there
    task,         \* per coroutine: the sync_git_repo call in progress
    out,          \* what the last step did, if it was a step of a sync
    prev,         \* <<the last call of sync_git_repo>>, if it returned
    source,       \* os.environ and the file at CONFIG_PATH
    config,       \* _config: << >> (None) or <<the RootConfig loaded>>
    reads,        \* how often the environment and the file were read
    loaded        \* <<the read that set _config and the source it read>>

syncVars == <<remote, fs, task, out, prev>>

confVars == <<source, config, reads, loaded>>

vars == <<world, clock, token_cache, cache_lock, pc, call, post_count, issued,
          ret, lastMint, remote, fs, task, out, prev, source, config, reads,
          loaded>>

----------------------------------------------------------------------------
(* Bounds and input sets *)

\* total number of POSTs to the access_tokens endpoint in one behaviour
MaxPosts == 2

\* callers (coroutines)
Procs == {1, 2}

\* <<github_keyfile, github_app_id, github_installation_id>> of the calls;
\* "" stands for an empty or missing (None) argument
CallArgs ==
    {<<"k1", "a1", "i1">>, <<"k2", "a1", "i1">>, <<"k1", "a2", "i1">>,
     <<"", "a1", "i1">>, <<"k1", "", "i1">>, <<"k1", "a1", "">>}

\* the instants (minutes) the clock visits
MinuteMarks == {0, 9, 10, 49, 51}
BoundaryMarks == {0, 9, 10}

\* one caller, every argument triple, the whole grid
Sequential ==
    [procs |-> {1}, args |-> CallArgs,
     instants |-> {60 * m : m \in MinuteMarks}]

\* two callers, both pairs, one missing parameter, the boundary instants
Concurrent ==
    [procs |-> Procs,
     args |-> {<<"k1", "a1", "i1">>, <<"k1", "a2", "i1">>, <<"", "a1", "i1">>},
     instants |-> {60 * m : m \in BoundaryMarks}]

\* two callers of one pair that find a stale entry in the cache
Refreshing ==
    [procs |-> Procs,
     args |-> {<<"k1", "a1", "i1">>, <<"", "a1", "i1">>},
     instants |-> {0, 10 * 60}]

\* lifetimes (seconds) of the tokens the endpoint hands out: GitHub's one
\* hour, and the 20 minutes of test_github_installation_token_refreshes_near_expiry
Lifetimes == {60 * 60, 20 * 60}

\* HTTP statuses the endpoint answers with
Statuses == {201, 403}

\* what open(github_keyfile) can do (a key jwt.encode rejects raises at
\* line 75, before the POST, with the same effect on the cache)
KeyOutcomes == {"ok", "OSError"}

----------------------------------------------------------------------------
(* github.py *)

CACHE_THRESHOLD == 50 * 60

\* keyed by the installation only
CacheKeyInstOnly(github_keyfile, github_app_id, github_installation_id) ==
    <<github_installation_id>>

\* the key file made part of the key
CacheKeyWithKeyfile(github_keyfile, github_app_id, github_installation_id) ==
    <<github_app_id, github_installation_id, github_keyfile>>

\* line 46: cache_key = (github_app_id, github_installation_id)
CacheKey(github_keyfile, github_app_id, github_installation_id) ==
    <<github_app_id, github_installation_id>>

\* the key file left out of the check
ParamsNoKeyfile(github_keyfile, github_app_id, github_installation_id) ==
    ~(github_app_id # "" /\ github_installation_id # "")

\* line 43: not (github_app_id and github_installation_id and github_keyfile)
ParamsMissing(github_keyfile, github_app_id, github_installation_id) ==
    ~(github_app_id # "" /\ github_installation_id # "" /\ github_keyfile # "")

\* datetime.timestamp() of an aware datetime
timestamp(dt) == ((dt.h * 60 + dt.m) * 60 + dt.s) - dt.utcoffset

\* <= for <
IsFreshInclusive(now, expires_at) ==
    LET threshold == timestamp(expires_at) - CACHE_THRESHOLD
    IN  now <= threshold

\* the margin forgotten: fresh until the expiry itself
IsFreshNoMargin(now, expires_at) ==
    now < timestamp(expires_at)

\* the docstring's reading: reused for the first 45 minutes of 60
IsFresh45(now, expires_at) ==
    LET threshold == timestamp(expires_at) - 15 * 60
    IN  now < threshold

\* lines 56-57: threshold = expires_at.timestamp() - CACHE_THRESHOLD;
\*              now.timestamp() < threshold
IsFresh(now, expires_at) ==
    LET threshold == timestamp(expires_at) - CACHE_THRESHOLD
    IN  now < threshold

\* line 93: expires_at_str.replace('Z', '+00:00')
ReplaceZ(str) == [str EXCEPT !.tz = IF @ = "Z" THEN "+00:00" ELSE @]

\* the offset dropped: the time is read as local time, an hour behind UTC
fromisoformatLocal(str) ==
    [h |-> str.h, m |-> str.m, s |-> str.s, utcoffset |-> 0 - 3600]

\* line 93: datetime.fromisoformat(...): an aware datetime (a "Z" is read
\* as UTC by the Pythons that accept it)
fromisoformat(str) ==
    [h |-> str.h, m |-> str.m, s |-> str.s,
     utcoffset |-> IF str.tz \in {"+00:00", "Z"} THEN 0 ELSE 3600]

\* line 86: r.raise_for_status() passes on 2xx
IsSuccess(status) == status >= 200 /\ status <= 299

\* lines 97-100: the entry stored for a response
NewEntry(response_data) ==
    [token |-> response_data.token,
     expires_at |-> fromisoformat(ReplaceZ(response_data.expires_at))]

\* nothing is stored
StoreDropped(cache, cache_key, response_data) == cache

\* an existing entry is updated in place: its token only
StoreInPlace(cache, cache_key, response_data) ==
    [k \in DOMAIN cache \cup {cache_key} |->
        IF k # cache_key THEN cache[k]
        ELSE IF k \in DOMAIN cache
             THEN [cache[k] EXCEPT !.token = response_data.token]
             ELSE NewEntry(response_data)]

\* the entry of the first caller to store is kept
StoreFirstWins(cache, cache_key, response_data) ==
    [k \in DOMAIN cache \cup {cache_key} |->
        IF k \in DOMAIN cache THEN cache[k] ELSE NewEntry(response_data)]

\* lines 96-100: _token_cache[cache_key] = {...}
Store(cache, cache_key, response_data) ==
    [k \in DOMAIN cache \cup {cache_key} |->
        IF k = cache_key THEN NewEntry(response_data) ELSE cache[k]]

\* line 63: del _token_cache[cache_key]
Delete(cache, cache_key) ==
    [k \in DOMAIN cache \ {cache_key} |-> cache[k]]

\* the stale entry is left in the cache
AfterLookupKeep(cache, cache_key) == cache

\* lines 50-63: what the lookup leaves in the cache on a miss
AfterLookup(cache, cache_key) ==
    IF cache_key \in DOMAIN cache THEN Delete(cache, cache_key) ELSE cache

\* lines 51-57: the lookup misses: no entry, or a stale one
Misses(now, cache, cache_key) ==
    IF cache_key \in DOMAIN cache
    THEN ~IsFresh(now, cache[cache_key].expires_at)
    ELSE TRUE

----------------------------------------------------------------------------
(* The endpoint (api.github.com) *)

\* expires_at of the response body: ISO 8601 with a trailing Z
FormatIso(t) ==
    [h |-> t \div 3600, m |-> (t % 3600) \div 60, s |-> t % 60, tz |-> "Z"]

----------------------------------------------------------------------------
(* History kept for the properties *)

NoCall == [idle |-> TRUE]
NoReturn == [kind |-> "none"]
NoToken == [id |-> 0]

\* the (app id, installation id) pair a call asks for
PairOf(c) == <<c.github_app_id, c.github_installation_id>>

\* a token is opaque to the program; the model's token value carries who
\* it was issued to, the key file its request was signed with, when the
\* endpoint issued it and its real expiry
Token(id, c, life) ==
    [id |-> id, pair |-> PairOf(c), github_keyfile |-> c.github_keyfile,
     minted |-> clock, expires |-> clock + life]

\* no other caller is inside a call for the same pair
Alone(p, pair) ==
    \A q \in world.procs \ {p} :
        IF pc[q] = "idle" THEN TRUE ELSE PairOf(call[q]) # pair

\* the locals of a call that starts now, and what it finds
Frame(p, github_keyfile, github_app_id, github_installation_id) ==
    LET pair == <<github_app_id, github_installation_id>>
        cache_key == CacheKey(github_keyfile, github_app_id,
                              github_installation_id)
    IN  [github_keyfile |-> github_keyfile,
         github_app_id |-> github_app_id,
         github_installation_id |-> github_installation_id,
         now |-> clock,
         found |-> IF cache_key \in DOMAIN token_cache
                   THEN <<token_cache[cache_key]>> ELSE <<>>,
         prev |-> IF pair \in DOMAIN lastMint THEN lastMint[pair] ELSE <<>>,
         alone |-> Alone(p, pair),
         read |-> FALSE,
         posts |-> 0]

\* the locals still alive across the POST
InFlight(c) ==
    [r \in {"github_keyfile", "github_app_id", "github_installation_id",
            "found", "read", "posts"} |-> c[r]]

\* the call record without the response
Locals(c) == [r \in DOMAIN c \ {"response"} |-> c[r]]

\* what a step of a call did: kind is "cached" or "minted" (a token is
\* returned), an exception name, or "post"; before is the cache the step
\* started from
Returned(c, kind, token) ==
    [kind |-> kind, token |-> token, at |-> clock, call |-> c,
     before |-> token_cache]

Remember(c, token) ==
    [k \in DOMAIN lastMint \cup {PairOf(c)} |->
        IF k = PairOf(c) THEN token ELSE lastMint[k]]

----------------------------------------------------------------------------
(* Bounds and input sets of the sync engine and the endpoint *)

\* pushes to the remote repository in one behaviour
MaxPushes == 1

\* coroutines running a sync
Tasks == {1, 2}

\* a Python str is the sequence of its pieces; None and '' are the empty one
Str(s) == <<s>>

\* git_url of the calls
GitUrls ==
    {<<"https://", "github.com/test/repo.git">>,
     <<"http://", "git.example.com/test/repo.git">>}

\* git_branch of the calls, and the branches of the remote repository
Branches == {"master", "main"}

\* git_token of the calls: none, or an installation token
GitTokens == {<< >>, Str("test-token-123")}

\* repo_dir of the calls
Dirs == {"/tmp/test-repo"}

\* exit statuses of a git process
ExitCodes == {0, 1, 128}

\* the names and the x-sync-token headers of the requests; "" is no header
Names ==
    {"test-repo", "public-repo", "test-github-repo", "default",
     "nonexistent"}
Headers == {"", "secret123", "wrong-secret"}

\* one caller of sync_git_repo, every argument
SyncWorld ==
    [entry |-> "sync_git_repo", tasks |-> {1}]

----------------------------------------------------------------------------
(* gitsync.py *)

\* str.replace(old, new): every occurrence
RECURSIVE replace(_, _, _)
replace(str, old, new) ==
    IF str = << >> THEN << >>
    ELSE (IF Head(str) = old THEN new ELSE <<Head(str)>>)
         \o replace(Tail(str), old, new)

\* the URL never rewritten
GitUrlVerbatim(git_url, git_token) == git_url

\* lines 44-45: if git_token:
\*     git_url = git_url.replace('https://',
\*                               f'https://x-access-token:{git_token}@')
GitUrl(git_url, git_token) ==
    IF git_token # << >>
    THEN replace(git_url, "https://",
                 <<"https://", "x-access-token:">> \o git_token \o <<"@">>)
    ELSE git_url

\* a directory that is there counts as a working copy
PresentIfDirectory(w) == w.exists

\* line 50: not (not repo_path.exists() or not git_dir.exists())
Present(w) == ~(~w.exists \/ ~w.git)

\* the parents left alone
MkdirNoParents(w) == [w EXCEPT !.exists = w.parent]

\* lines 52-53: repo_path.mkdir(parents=True, exist_ok=True)
Mkdir(w) == [w EXCEPT !.exists = TRUE, !.parent = TRUE]

\* one call of run(*args, cwd=cwd); cwd "" is None
Cmd(args, cwd) == [args |-> args, cwd |-> cwd]

\* the remote repointed to the given URL with or without a credential
StepsAlwaysSetUrl(present, repo_dir, git_url, git_branch, git_token) ==
    LET git(rest) == <<Str("git")>> \o rest
    IN  (IF ~present
         THEN <<Cmd(git(<<Str("clone"), git_url, Str(repo_dir)>>), "")>>
         ELSE <<Cmd(git(<<Str("remote"), Str("set-url"),
                          Str("origin"), git_url>>), repo_dir),
                Cmd(git(<<Str("fetch"), Str("--all"), Str("--prune")>>),
                    repo_dir),
                Cmd(git(<<Str("reset"), Str("--hard"),
                          <<"origin/", git_branch>>>>), repo_dir)>>)
        \o <<Cmd(git(<<Str("log"), Str("-1"), Str("--oneline")>>), repo_dir)>>

\* fetch before the remote is repointed
StepsFetchFirst(present, repo_dir, git_url, git_branch, git_token) ==
    LET git(rest) == <<Str("git")>> \o rest
    IN  (IF ~present
         THEN <<Cmd(git(<<Str("clone"), git_url, Str(repo_dir)>>), "")>>
         ELSE <<Cmd(git(<<Str("fetch"), Str("--all"), Str("--prune")>>),
                    repo_dir)>>
              \o (IF git_token # << >>
                  THEN <<Cmd(git(<<Str("remote"), Str("set-url"),
                                   Str("origin"), git_url>>), repo_dir)>>
                  ELSE << >>)
              \o <<Cmd(git(<<Str("reset"), Str("--hard"),
                             <<"origin/", git_branch>>>>), repo_dir)>>)
        \o <<Cmd(git(<<Str("log"), Str("-1"), Str("--oneline")>>), repo_dir)>>

\* the working copy cloned again when it is there already
StepsAlwaysClone(present, repo_dir, git_url, git_branch, git_token) ==
    LET git(rest) == <<Str("git")>> \o rest
    IN  <<Cmd(git(<<Str("clone"), git_url, Str(repo_dir)>>), ""),
          Cmd(git(<<Str("log"), Str("-1"), Str("--oneline")>>), repo_dir)>>

\* the remote left as it was when a credential is given
StepsNoSetUrl(present, repo_dir, git_url, git_branch, git_token) ==
    LET git(rest) == <<Str("git")>> \o rest
    IN  (IF ~present
         THEN <<Cmd(git(<<Str("clone"), git_url, Str(repo_dir)>>), "")>>
         ELSE <<Cmd(git(<<Str("fetch"), Str("--all"), Str("--prune")>>),
                    repo_dir),
                Cmd(git(<<Str("reset"), Str("--hard"),
                          <<"origin/", git_branch>>>>), repo_dir)>>)
        \o <<Cmd(git(<<Str("log"), Str("-1"), Str("--oneline")>>), repo_dir)>>

\* the clone run from inside the directory it is to make
StepsCloneInside(present, repo_dir, git_url, git_branch, git_token) ==
    LET git(rest) == <<Str("git")>> \o rest
    IN  (IF ~present
         THEN <<Cmd(git(<<Str("clone"), git_url, Str(repo_dir)>>), repo_dir)>>
         ELSE (IF git_token # << >>
               THEN <<Cmd(git(<<Str("remote"), Str("set-url"),
                                Str("origin"), git_url>>), repo_dir)>>
               ELSE << >>)
              \o <<Cmd(git(<<Str("fetch"), Str("--all"), Str("--prune")>>),
                       repo_dir),
                   Cmd(git(<<Str("reset"), Str("--hard"),
                             <<"origin/", git_branch>>>>), repo_dir)>>)
        \o <<Cmd(git(<<Str("log"), Str("-1"), Str("--oneline")>>), repo_dir)>>

\* the fresh clone fetched and reset as well
StepsCloneThenFetch(present, repo_dir, git_url, git_branch, git_token) ==
    LET git(rest) == <<Str("git")>> \o rest
    IN  (IF ~present
         THEN <<Cmd(git(<<Str("clone"), git_url, Str(repo_dir)>>), "")>>
         ELSE << >>)
        \o (IF git_token # << >> /\ present
            THEN <<Cmd(git(<<Str("remote"), Str("set-url"),
                             Str("origin"), git_url>>), repo_dir)>>
            ELSE << >>)
        \o <<Cmd(git(<<Str("fetch"), Str("--all"), Str("--prune")>>),
                 repo_dir),
             Cmd(git(<<Str("reset"), Str("--hard"),
                       <<"origin/", git_branch>>>>), repo_dir),
             Cmd(git(<<Str("log"), Str("-1"), Str("--oneline")>>), repo_dir)>>

\* lines 50-62: the git processes of one call, in the order they are run;
\* git_url is the rewritten one
Steps(present, repo_dir, git_url, git_branch, git_token) ==
    LET git(rest) == <<Str("git")>> \o rest
    IN  (IF ~present
         THEN <<Cmd(git(<<Str("clone"), git_url, Str(repo_dir)>>), "")>>
         ELSE (IF git_token # << >>
               THEN <<Cmd(git(<<Str("remote"), Str("set-url"),
                                Str("origin"), git_url>>), repo_dir)>>
               ELSE << >>)
              \o <<Cmd(git(<<Str("fetch"), Str("--all"), Str("--prune")>>),
                       repo_dir),
                   Cmd(git(<<Str("reset"), Str("--hard"),
                             <<"origin/", git_branch>>>>), repo_dir)>>)
        \o <<Cmd(git(<<Str("log"), Str("-1"), Str("--oneline")>>), repo_dir)>>

\* process.returncode of a process that has not exited
Running == -1

\* lines 22-27: asyncio.create_subprocess_exec(*args, cwd=cwd, ...)
Process(cmd) == [args |-> cmd.args, cwd |-> cmd.cwd, returncode |-> Running]

\* line 30: process.stderr.read(), what the git process wrote
Stderr(p) == <<"fatal: git ", p.args[2][1], " failed">>

\* the captured output left out
CalledProcessErrorBare(returncode, cmd, stderr) ==
    [type |-> "CalledProcessError", returncode |-> returncode, cmd |-> cmd,
     stderr |-> << >>]

\* line 31: subprocess.CalledProcessError(returncode, args, stderr=stderr)
CalledProcessError(returncode, cmd, stderr) ==
    [type |-> "CalledProcessError", returncode |-> returncode, cmd |-> cmd,
     stderr |-> stderr]

----------------------------------------------------------------------------
(* git, as sync_git_repo drives it *)

\* no working copy: the directory is missing, or holds no .git
NoCopy(parent, exists, stray) ==
    [parent |-> parent, exists |-> exists, stray |-> stray, git |-> FALSE,
     head |-> 0, dirty |-> FALSE, origin |-> << >>,
     refs |-> [b \in Branches |-> 0]]

\* the states a directory starts in: missing with or without its parent,
\* empty, or holding files that are not a working copy
StartCopies ==
    {NoCopy(FALSE, FALSE, FALSE), NoCopy(TRUE, FALSE, FALSE),
     NoCopy(TRUE, TRUE, FALSE), NoCopy(TRUE, TRUE, TRUE)}

\* the remote repository: main is its default branch
Origin == [HEAD |-> "main", refs |-> [b \in Branches |->
                                         IF b = "master" THEN 1 ELSE 2],
           pushes |-> 0]

\* the subcommand of a git process
Verb(p) == p.args[2][1]

\* the directory a git process works on
Target(p) == IF Verb(p) = "clone" THEN p.args[4][1] ELSE p.cwd

\* whether the process can exit with status 0 on the working copy w
CanSucceed(p, w) ==
    IF Verb(p) = "clone" THEN ~w.git /\ ~w.stray
    ELSE /\ w.git
         /\ Verb(p) = "reset" => w.refs[p.args[4][2]] # 0
         /\ Verb(p) = "log" => w.head # 0

\* the working copy w after the process exited with status 0
Git(p, w, rem) ==
    CASE Verb(p) = "clone" ->
            [w EXCEPT !.parent = TRUE, !.exists = TRUE, !.git = TRUE,
                      !.head = rem.refs[rem.HEAD], !.dirty = FALSE,
                      !.origin = p.args[3], !.refs = rem.refs]
      [] Verb(p) = "remote" -> [w EXCEPT !.origin = p.args[5]]
      [] Verb(p) = "fetch" -> [w EXCEPT !.refs = rem.refs]
      [] Verb(p) = "reset" ->
            [w EXCEPT !.head = w.refs[p.args[4][2]], !.dirty = FALSE]
      [] OTHER -> w

----------------------------------------------------------------------------
(* History helpers of the sync *)

Idle == [pc |-> "idle"]
NoOut == [kind |-> "none"]
NoRequest == [name |-> "", x_sync_token |-> ""]

\* the frame of a sync_git_repo call; was is the directory as the call
\* found it, pushes the state of the remote then, first the call before it
Job(req, repo_dir, original_url, git_branch, git_token) ==
    [pc |-> "run", req |-> req, repo_dir |-> repo_dir,
     original_url |-> original_url,
     git_url |-> GitUrl(original_url, git_token),
     git_branch |-> git_branch, git_token |-> git_token,
     present |-> Present(fs[repo_dir]), log |-> << >>,
     was |-> fs[repo_dir], pushes |-> remote.pushes, first |-> prev]

\* the git processes of the call j
StepsOf(j) ==
    Steps(j.present, j.repo_dir, j.git_url, j.git_branch, j.git_token)

\* the arguments the call j was made with
ArgsOf(j) == <<j.repo_dir, j.original_url, j.git_branch, j.git_token>>

\* the running process of the call j, and the log once it exited
Current(j) == j.log[Len(j.log)]
Exited(j, returncode) ==
    [j EXCEPT !.log[Len(j.log)].returncode = returncode]

\* what a finished call leaves behind for the next one
Done(j) ==
    [args |-> ArgsOf(j), head |-> fs'[j.repo_dir].head,
     cloned |-> ~j.present, pushes |-> j.pushes]

----------------------------------------------------------------------------
(* config.py *)

\* a Python dict is the function from its keys; None and '' are ""
get(d, k, default) == IF k \in DOMAIN d THEN d[k] ELSE default
update(d, e) == e @@ d

\* the value written whether or not the key is there
setalways(d, k, v) == (k :> v) @@ d

\* dict.setdefault
setdefault(d, k, v) == IF k \in DOMAIN d THEN d ELSE (k :> v) @@ d

\* lines 155-159 and 167-172: the (env_var, config_key) pairs
GlobalPairs ==
    {<<"GITSYNC_GITHUB_APP_ID", "github_app_id">>,
     <<"GITSYNC_GITHUB_INSTALLATION_ID", "github_installation_id">>,
     <<"GITSYNC_GITHUB_KEYFILE", "github_keyfile">>,
     <<"GITSYNC_WEBHOOK_SECRET", "webhook_secret">>}
RepoPairs ==
    {<<"GITSYNC_REPO_NAME", "name">>,
     <<"GITSYNC_REPO_DIRECTORY", "directory">>,
     <<"GITSYNC_REPO_GIT_URL", "git_url">>,
     <<"GITSYNC_REPO_BRANCH", "branch">>,
     <<"GITSYNC_REPO_PROVIDER", "provider">>}

\* lines 161-164 and 174-177: the keys whose variable is set
FromPairs(pairs, environ) ==
    LET set == {q \in pairs : q[1] \in DOMAIN environ}
    IN  [k \in {q[2] : q \in set} |->
            environ[(CHOOSE q \in set : q[2] = k)[1]]]

\* lines 146-185
config_from_env(environ) ==
    LET global_config == FromPairs(GlobalPairs, environ)
        repo_config == FromPairs(RepoPairs, environ)
        named == setdefault(repo_config, "name", "default")
    IN  IF DOMAIN repo_config # {}
        THEN [global |-> global_config, repos |-> (named.name :> named)]
        ELSE [global |-> global_config]

\* lines 196-207: the file at CONFIG_PATH, the environment laid over it
config_data(src) ==
    LET env_config == config_from_env(src.environ)
    IN  IF src.file # << >>
        THEN LET data == src.file[1]
             IN  ("global" :> update(get(data, "global", << >>),
                                     get(env_config, "global", << >>)))
                 @@ ("repos" :> update(get(data, "repos", << >>),
                                       get(env_config, "repos", << >>)))
                 @@ data
        ELSE env_config

\* lines 29-38: GlobalConfig.model_validate
GlobalConfig(d) ==
    [github_app_id |-> get(d, "github_app_id", ""),
     github_installation_id |-> get(d, "github_installation_id", ""),
     github_keyfile |-> get(d, "github_keyfile", ""),
     webhook_secret |-> get(d, "webhook_secret", "")]

\* lines 131-141: one repository with the defaults filled in
WithDefaults(repo_name, repo, glbl) ==
    LET named == setdefault(repo, "name", repo_name)
        typed == setdefault(named, "provider", "git")
        hub == IF typed.provider = "github"
               THEN setdefault(
                      setdefault(
                        setdefault(typed, "github_keyfile",
                                   glbl.github_keyfile),
                        "github_app_id", glbl.github_app_id),
                      "github_installation_id", glbl.github_installation_id)
               ELSE typed
    IN  setdefault(hub, "webhook_secret", glbl.webhook_secret)

\* lines 121-143
apply_global_defaults(v) ==
    LET glbl == GlobalConfig(get(v, "global", << >>))
        repos == get(v, "repos", << >>)
    IN  [global |-> glbl,
         repos |-> [repo_name \in DOMAIN repos |->
                       WithDefaults(repo_name, repos[repo_name], glbl)]]

\* lines 41-51 and 66-74: the fields of a descriptor; name, directory and
\* git_url are required
Valid(repo) ==
    /\ {"name", "directory", "git_url"} \subseteq DOMAIN repo
    /\ repo.provider \in {"git", "github"}

RepoConfig(repo) ==
    [name |-> repo.name, directory |-> repo.directory,
     git_url |-> repo.git_url, branch |-> get(repo, "branch", "master"),
     webhook_secret |-> get(repo, "webhook_secret", ""),
     provider |-> "git"]

GitHubRepoConfig(repo) ==
    [name |-> repo.name, directory |-> repo.directory,
     git_url |-> repo.git_url, branch |-> get(repo, "branch", "master"),
     webhook_secret |-> get(repo, "webhook_secret", ""),
     provider |-> "github",
     github_app_id |-> get(repo, "github_app_id", ""),
     github_installation_id |-> get(repo, "github_installation_id", ""),
     github_keyfile |-> get(repo, "github_keyfile", "")]

\* lines 108-118: RootConfig.model_validate; << >> is a ValidationError
model_validate(v) ==
    LET fixed == apply_global_defaults(v)
    IN  IF \A n \in DOMAIN fixed.repos : Valid(fixed.repos[n])
        THEN <<[global_ |-> fixed.global,
                repos |-> [n \in DOMAIN fixed.repos |->
                             IF fixed.repos[n].provider = "github"
                             THEN GitHubRepoConfig(fixed.repos[n])
                             ELSE RepoConfig(fixed.repos[n])]]>>
        ELSE << >>

\* the configuration read again on every call
get_config_afresh(cached, src) ==
    [value |-> model_validate(config_data(src)), read |-> TRUE]

\* lines 188-212: the value returned, << >> when the load raises, and
\* whether the environment and the file were read
get_config(cached, src) ==
    IF cached = << >>
    THEN [value |-> model_validate(config_data(src)), read |-> TRUE]
    ELSE [value |-> cached, read |-> FALSE]

\* app.py line 34: config.global_.sync_on_startup, an attribute lookup
hasattr(obj, name) == name \in DOMAIN obj

----------------------------------------------------------------------------
(* Configurations: os.environ and the YAML file at CONFIG_PATH *)

\* loads of the configuration in one behaviour
MaxReads == 2

RepoUrl == <<"https://", "github.com/test/repo.git">>

\* a global secret, one repository that gives directory and URL only
InheritsSecret ==
    [environ |-> << >>,
     file |-> <<[global |-> [webhook_secret |-> "secret123"],
                 repos |-> [n \in {"test-repo"} |->
                              [directory |-> "/tmp/test-repo",
                               git_url |-> RepoUrl]]]>>]

\* a global secret, one repository that sets its own secret to null
OpenRepo ==
    [environ |-> << >>,
     file |-> <<[global |-> [webhook_secret |-> "secret123"],
                 repos |-> [n \in {"public-repo"} |->
                              [directory |-> "/tmp/test-repo",
                               git_url |-> RepoUrl, branch |-> "main",
                               webhook_secret |-> ""]]]>>]

\* a GitHub repository: key file and app id from the environment, the
\* installation from the file, its own app id and its own secret
GitHubRepo ==
    [environ |-> [GITSYNC_GITHUB_KEYFILE |-> "/tmp/test-key.pem",
                  GITSYNC_GITHUB_APP_ID |-> "12345"],
     file |-> <<[global |-> [github_installation_id |-> "67890",
                             github_app_id |-> "11111",
                             webhook_secret |-> "global-secret"],
                 repos |-> [n \in {"test-github-repo"} |->
                              [provider |-> "github",
                               directory |-> "/tmp/test-repo",
                               git_url |-> RepoUrl, branch |-> "main",
                               github_app_id |-> "99999",
                               webhook_secret |-> "secret123"]]]>>]

\* a GitHub repository with no key file anywhere
GitHubNoKeyfile ==
    [environ |-> << >>,
     file |-> <<[global |-> [github_app_id |-> "12345",
                             github_installation_id |-> "67890"],
                 repos |-> [n \in {"test-github-repo"} |->
                              [provider |-> "github",
                               directory |-> "/tmp/test-repo",
                               git_url |-> RepoUrl]]]>>]

\* a GitHub repository with a key file and an installation but no app id
GitHubNoAppId ==
    [environ |-> << >>,
     file |-> <<[global |-> [github_keyfile |-> "/tmp/test-key.pem",
                             github_installation_id |-> "67890"],
                 repos |-> [n \in {"test-github-repo"} |->
                              [provider |-> "github",
                               directory |-> "/tmp/test-repo",
                               git_url |-> RepoUrl]]]>>]

\* a GitHub repository of a server reached over http://
GitHubHttp ==
    [environ |-> [GITSYNC_GITHUB_KEYFILE |-> "/tmp/test-key.pem",
                  GITSYNC_GITHUB_APP_ID |-> "12345",
                  GITSYNC_GITHUB_INSTALLATION_ID |-> "67890",
                  GITSYNC_WEBHOOK_SECRET |-> "secret123"],
     file |-> <<[repos |-> [n \in {"test-github-repo"} |->
                              [provider |-> "github",
                               directory |-> "/tmp/test-repo",
                               git_url |-> <<"http://",
                                             "git.example.com/test/repo.git">>,
                               branch |-> "main"]]]>>]

\* no file: the repository 'default' of the GITSYNC_REPO_* variables
EnvOnly ==
    [environ |-> [GITSYNC_REPO_DIRECTORY |-> "/tmp/test-repo",
                  GITSYNC_REPO_GIT_URL |-> RepoUrl,
                  GITSYNC_WEBHOOK_SECRET |-> "secret123"],
     file |-> << >>]

\* a repository with no directory: the load raises a ValidationError
Broken ==
    [environ |-> << >>,
     file |-> <<[repos |-> [n \in {"test-repo"} |->
                              [git_url |-> RepoUrl]]]>>]

\* the file edited after the program has started: the secret rotated
Edited(src) ==
    LET data == src.file[1]
        glbl == get(data, "global", << >>)
    IN  [src EXCEPT !.file =
            <<("global" :> (("webhook_secret" :> "rotated-secret") @@ glbl))
              @@ data>>]

\* nothing configured
NoSource == [environ |-> << >>, file |-> << >>]

\* two concurrent requests: the configuration of the endpoint's tests
AppSources == {InheritsSecret}

\* one coroutine: every configuration
RepoSources ==
    {InheritsSecret, OpenRepo, GitHubRepo, GitHubNoKeyfile, GitHubNoAppId,
     GitHubHttp, EnvOnly, Broken}

\* two concurrent requests to POST /sync/{name}
AppWorld ==
    [entry |-> "POST /sync/{name}", tasks |-> Tasks,
     names |-> {"test-repo", "nonexistent"},
     sources |-> AppSources]

\* one coroutine: startup, then one request after the other
RepoWorld ==
    [entry |-> "app", procs |-> {1}, tasks |-> {1}, names |-> Names,
     sources |-> RepoSources, instants |-> {0, 10 * 60}]

----------------------------------------------------------------------------
Base ==
    /\ clock = 0
    /\ token_cache = << >>
    /\ cache_lock = "free"
    /\ pc = [p \in Procs |-> "idle"]
    /\ call = [p \in Procs |-> NoCall]
    /\ post_count = 0
    /\ issued = 0
    /\ ret = NoReturn
    /\ lastMint = << >>

\* the sync engine and the endpoint at rest
Rest ==
    /\ remote = Origin
    /\ task = [t \in Tasks |-> Idle]
    /\ out = NoOut
    /\ prev = << >>
    /\ config = << >>
    /\ reads = 0
    /\ loaded = << >>

Init ==
    /\ Base /\ Rest
    /\ world = Concurrent
    /\ fs = [d \in Dirs |-> NoCopy(FALSE, FALSE, FALSE)]
    /\ source = NoSource

InitSeq ==
    /\ Base /\ Rest
    /\ world = Sequential
    /\ fs = [d \in Dirs |-> NoCopy(FALSE, FALSE, FALSE)]
    /\ source = NoSource

\* an earlier call has minted a token of 20 minutes' lifetime for the pair
\* and stored it: the entry is stale from the start.  POSTs are counted
\* from here on.
InitStale ==
    /\ Rest
    /\ world = Refreshing
    /\ fs = [d \in Dirs |-> NoCopy(FALSE, FALSE, FALSE)]
    /\ source = NoSource
    /\ clock = 0
    /\ cache_lock = "free"
    /\ pc = [p \in Procs |-> "idle"]
    /\ call = [p \in Procs |-> NoCall]
    /\ post_count = 0
    /\ issued = 1
    /\ ret = NoReturn
    /\ LET c == [github_keyfile |-> "k1", github_app_id |-> "a1",
                 github_installation_id |-> "i1"]
           token == Token(1, c, 20 * 60)
           response_data == [status |-> 201, token |-> token,
                             expires_at |-> FormatIso(token.expires)]
       IN  /\ token_cache = Store(<< >>, CacheKey("k1", "a1", "i1"),
                                  response_data)
           /\ lastMint = (PairOf(c) :> <<token>>)

\* the wall clock moves on to a later instant
Tick ==
    /\ \E t \in world.instants : t > clock /\ clock' = t
    /\ ret' = NoReturn
    /\ UNCHANGED <<world, token_cache, cache_lock, pc, call, post_count,
                   issued, lastMint>>

\* lines 43-44: a parameter is missing
RaiseValueError(p, github_keyfile, github_app_id, github_installation_id) ==
    /\ pc[p] = "idle"
    /\ ParamsMissing(github_keyfile, github_app_id, github_installation_id)
    /\ ret' = Returned(Frame(p, github_keyfile, github_app_id,
                             github_installation_id), "ValueError", NoToken)
    /\ UNCHANGED <<world, clock, token_cache, cache_lock, pc, call,
                   post_count, issued, lastMint>>

\* lines 43-59: the entry is fresh and its token is returned
ReturnCached(p, github_keyfile, github_app_id, github_installation_id) ==
    LET cache_key == CacheKey(github_keyfile, github_app_id,
                              github_installation_id)
        c == Frame(p, github_keyfile, github_app_id, github_installation_id)
    IN  /\ pc[p] = "idle"
        /\ ~ParamsMissing(github_keyfile, github_app_id,
                          github_installation_id)
        /\ cache_lock = "free"
        /\ ~Misses(c.now, token_cache, cache_key)
        /\ ret' = Returned(c, "cached", token_cache[cache_key].token)
        /\ lastMint' = Remember(c, <<token_cache[cache_key].token>>)
        /\ UNCHANGED <<world, clock, token_cache, cache_lock, pc, call,
                       post_count, issued>>

\* the stale entry is still there when the key file cannot be read
RaiseKeyErrorKeeping(p, github_keyfile, github_app_id, github_installation_id) ==
    LET cache_key == CacheKey(github_keyfile, github_app_id,
                              github_installation_id)
        c == Frame(p, github_keyfile, github_app_id, github_installation_id)
    IN  /\ pc[p] = "idle"
        /\ ~ParamsMissing(github_keyfile, github_app_id,
                          github_installation_id)
        /\ cache_lock = "free"
        /\ Misses(c.now, token_cache, cache_key)
        /\ \E outcome \in KeyOutcomes \ {"ok"} :
              ret' = Returned(c, outcome, NoToken)
        /\ lastMint' = Remember(c, <<>>)
        /\ UNCHANGED <<world, clock, token_cache, cache_lock, pc, call,
                       post_count, issued>>

\* lines 43-67: miss, then the key file cannot be read
RaiseKeyError(p, github_keyfile, github_app_id, github_installation_id) ==
    LET cache_key == CacheKey(github_keyfile, github_app_id,
                              github_installation_id)
        c == Frame(p, github_keyfile, github_app_id, github_installation_id)
    IN  /\ pc[p] = "idle"
        /\ ~ParamsMissing(github_keyfile, github_app_id,
                          github_installation_id)
        /\ cache_lock = "free"
        /\ Misses(c.now, token_cache, cache_key)
        /\ token_cache' = AfterLookup(token_cache, cache_key)
        /\ \E outcome \in KeyOutcomes \ {"ok"} :
              ret' = Returned(c, outcome, NoToken)
        /\ lastMint' = Remember(c, <<>>)
        /\ UNCHANGED <<world, clock, cache_lock, pc, call, post_count, issued>>

\* the lock taken for the lookup is still held while the POST is in flight
SendPostHoldingLock(p, github_keyfile, github_app_id, github_installation_id) ==
    LET cache_key == CacheKey(github_keyfile, github_app_id,
                              github_installation_id)
        c == Frame(p, github_keyfile, github_app_id, github_installation_id)
        sent == [c EXCEPT !.read = TRUE, !.posts = 1]
    IN  /\ pc[p] = "idle"
        /\ ~ParamsMissing(github_keyfile, github_app_id,
                          github_installation_id)
        /\ cache_lock = "free"
        /\ post_count < MaxPosts
        /\ Misses(c.now, token_cache, cache_key)
        /\ token_cache' = AfterLookup(token_cache, cache_key)
        /\ call' = [call EXCEPT ![p] = InFlight(sent)]
        /\ pc' = [pc EXCEPT ![p] = "post"]
        /\ post_count' = post_count + 1
        /\ cache_lock' = "held"
        /\ ret' = Returned(sent, "post", NoToken)
        /\ UNCHANGED <<world, clock, issued, lastMint>>

\* lines 43-82: miss, key read, assertion signed, POST sent
SendPost(p, github_keyfile, github_app_id, github_installation_id) ==
    LET cache_key == CacheKey(github_keyfile, github_app_id,
                              github_installation_id)
        c == Frame(p, github_keyfile, github_app_id, github_installation_id)
        sent == [c EXCEPT !.read = TRUE, !.posts = 1]
    IN  /\ pc[p] = "idle"
        /\ ~ParamsMissing(github_keyfile, github_app_id,
                          github_installation_id)
        /\ cache_lock = "free"
        /\ post_count < MaxPosts
        /\ Misses(c.now, token_cache, cache_key)
        /\ token_cache' = AfterLookup(token_cache, cache_key)
        /\ call' = [call EXCEPT ![p] = InFlight(sent)]
        /\ pc' = [pc EXCEPT ![p] = "post"]
        /\ post_count' = post_count + 1
        /\ ret' = Returned(sent, "post", NoToken)
        /\ UNCHANGED <<world, clock, cache_lock, issued, lastMint>>

\* the endpoint answers the POST of caller p
Respond(p) ==
    /\ pc[p] = "post"
    /\ \E status \in Statuses, life \in Lifetimes :
          IF IsSuccess(status)
          THEN /\ issued' = issued + 1
               /\ call' = [call EXCEPT ![p] =
                      [r \in DOMAIN call[p] \cup {"response"} |->
                         IF r = "response"
                         THEN [status |-> status,
                               token |-> Token(issued + 1, call[p], life),
                               expires_at |-> FormatIso(clock + life)]
                         ELSE call[p][r]]]
          ELSE /\ life = 60 * 60
               /\ issued' = issued
               /\ call' = [call EXCEPT ![p] =
                      [r \in DOMAIN call[p] \cup {"response"} |->
                         IF r = "response"
                         THEN [status |-> status]
                         ELSE call[p][r]]]
    /\ pc' = [pc EXCEPT ![p] = "resp"]
    /\ ret' = NoReturn
    /\ UNCHANGED <<world, clock, token_cache, cache_lock, post_count, lastMint>>

\* the failed call puts the entry it had found stale back
RaiseAndRestore(p) ==
    /\ pc[p] = "resp"
    /\ ~IsSuccess(call[p].response.status)
    /\ token_cache' =
          IF call[p].found = <<>> THEN token_cache
          ELSE [k \in DOMAIN token_cache \cup {PairOf(call[p])} |->
                  IF k = PairOf(call[p]) THEN call[p].found[1]
                  ELSE token_cache[k]]
    /\ ret' = Returned(Locals(call[p]), "HTTPStatusError", NoToken)
    /\ lastMint' = Remember(call[p], <<>>)
    /\ pc' = [pc EXCEPT ![p] = "idle"]
    /\ call' = [call EXCEPT ![p] = NoCall]
    /\ UNCHANGED <<world, clock, cache_lock, post_count, issued>>

\* line 86: raise_for_status() raises
RaiseHTTPStatusError(p) ==
    /\ pc[p] = "resp"
    /\ ~IsSuccess(call[p].response.status)
    /\ ret' = Returned(Locals(call[p]), "HTTPStatusError", NoToken)
    /\ lastMint' = Remember(call[p], <<>>)
    /\ pc' = [pc EXCEPT ![p] = "idle"]
    /\ call' = [call EXCEPT ![p] = NoCall]
    /\ UNCHANGED <<world, clock, token_cache, cache_lock, post_count, issued>>

\* lines 86-103: parse the response, store the entry, return the token
StoreAndReturn(p) ==
    LET c == call[p]
        cache_key == CacheKey(c.github_keyfile, c.github_app_id,
                              c.github_installation_id)
    IN  /\ pc[p] = "resp"
        /\ IsSuccess(c.response.status)
        /\ cache_lock = "free"
        /\ token_cache' = Store(token_cache, cache_key, c.response)
        /\ ret' = Returned(Locals(c), "minted", c.response.token)
        /\ lastMint' = Remember(c, <<c.response.token>>)
        /\ pc' = [pc EXCEPT ![p] = "idle"]
        /\ call' = [call EXCEPT ![p] = NoCall]
        /\ UNCHANGED <<world, clock, cache_lock, post_count, issued>>

\* the steps of the token cache leave the working copies and the
\* configuration alone
Next ==
    \/ /\ \E p \in world.procs :
             \/ Respond(p)
             \/ StoreAndReturn(p)
             \/ RaiseHTTPStatusError(p)
       /\ UNCHANGED <<syncVars, confVars>>
    \/ /\ \E p \in world.procs, a \in world.args :
             \/ RaiseValueError(p, a[1], a[2], a[3])
             \/ ReturnCached(p, a[1], a[2], a[3])
             \/ SendPost(p, a[1], a[2], a[3])
             \/ RaiseKeyError(p, a[1], a[2], a[3])
       /\ UNCHANGED <<syncVars, confVars>>
    \/ Tick /\ UNCHANGED <<syncVars, confVars>>

Spec == Init /\ [][Next]_vars

SpecSeq == InitSeq /\ [][Next]_vars

SpecStale == InitStale /\ [][Next]_vars

----------------------------------------------------------------------------
(* sync_git_repo, run and the git processes *)

tokenVars == <<world, clock, token_cache, cache_lock, pc, call, post_count,
               issued, ret, lastMint>>

\* whether calls follow one another (one coroutine only)
InSequence == Cardinality(world.tasks) = 1

\* lines 43-54 or 43-59: the call up to the start of its first git process
Begin(t, req, repo_dir, git_url, git_branch, git_token) ==
    /\ LET j == Job(req, repo_dir, git_url, git_branch, git_token)
       IN  /\ fs' = IF j.present THEN fs
                    ELSE [fs EXCEPT ![repo_dir] = Mkdir(@)]
           /\ task' = [task EXCEPT
                         ![t] = [j EXCEPT !.log = <<Process(StepsOf(j)[1])>>]]
    /\ out' = NoOut
    /\ UNCHANGED <<remote, prev>>

\* a direct call of sync_git_repo
Call(t, repo_dir, git_url, git_branch, git_token) ==
    /\ task[t] = Idle
    /\ Begin(t, NoRequest, repo_dir, git_url, git_branch, git_token)

\* lines 28-29 and the next await run(...), lines 21-27: the process exits
\* with status 0 and the next one is started
RunNext(t) ==
    /\ task[t].pc = "run"
    /\ LET j == task[t]
           p == Current(j)
           d == Target(p)
       IN  /\ Len(j.log) < Len(StepsOf(j))
           /\ CanSucceed(p, fs[d])
           /\ fs' = [fs EXCEPT ![d] = Git(p, @, remote)]
           /\ task' = [task EXCEPT
                         ![t] = [Exited(j, 0) EXCEPT
                                   !.log = @ \o <<Process(
                                              StepsOf(j)[Len(j.log) + 1])>>]]
    /\ out' = NoOut
    /\ UNCHANGED <<remote, prev>>

\* app.py line 85: return {'status': 'ok', 'repo': name}
Ok(j) ==
    [kind |-> "response", status_code |-> 200,
     content |-> [status |-> "ok", repo |-> j.req.name], req |-> j.req,
     job |-> j]

\* the exception of the sync swallowed by the handler
SyncFailedSilently(j, e) ==
    [kind |-> "response", status_code |-> 200,
     content |-> [status |-> "ok", repo |-> j.req.name], req |-> j.req,
     job |-> j]

\* app.py lines 86-88: except Exception as e:
\*     raise HTTPException(status_code=500, detail=f'Sync failed: {str(e)}')
SyncFailed(j, e) ==
    [kind |-> "response", status_code |-> 500,
     content |-> [detail |-> <<"Sync failed: ", "Command ", e.cmd,
                               " returned non-zero exit status ",
                               e.returncode>>],
     req |-> j.req, job |-> j]

\* line 62 done: the last process exits with status 0, the call returns
ReturnNone(t) ==
    /\ task[t].pc = "run"
    /\ LET j == task[t]
           p == Current(j)
           d == Target(p)
       IN  /\ Len(j.log) = Len(StepsOf(j))
           /\ CanSucceed(p, fs[d])
           /\ fs' = [fs EXCEPT ![d] = Git(p, @, remote)]
           /\ out' = IF j.req = NoRequest
                     THEN [kind |-> "returned", job |-> Exited(j, 0)]
                     ELSE Ok(Exited(j, 0))
           /\ prev' = IF InSequence THEN <<Done(j)>> ELSE prev
    /\ task' = [task EXCEPT ![t] = Idle]
    /\ UNCHANGED <<remote>>

\* the failure swallowed: the call goes on with its next process
KeepGoing(t, returncode) ==
    /\ task[t].pc = "run"
    /\ returncode # 0
    /\ LET j == task[t]
           p == Current(j)
           e == CalledProcessError(returncode, p.args, Stderr(p))
       IN  IF Len(j.log) < Len(StepsOf(j))
           THEN /\ task' = [task EXCEPT
                              ![t] = [Exited(j, returncode) EXCEPT
                                        !.log = @ \o <<Process(
                                              StepsOf(j)[Len(j.log) + 1])>>]]
                /\ out' = NoOut
                /\ prev' = prev
           ELSE /\ task' = [task EXCEPT ![t] = Idle]
                /\ out' = IF j.req = NoRequest
                          THEN [kind |-> "raised", error |-> e,
                                job |-> Exited(j, returncode)]
                          ELSE SyncFailed(Exited(j, returncode), e)
                /\ prev' = IF InSequence THEN << >> ELSE prev
    /\ UNCHANGED <<remote, fs>>

\* lines 28-31: the process exits with a non-zero status, run raises and
\* the exception leaves sync_git_repo
RaiseCalledProcessError(t, returncode) ==
    /\ task[t].pc = "run"
    /\ returncode # 0
    /\ LET j == task[t]
           p == Current(j)
           e == CalledProcessError(returncode, p.args, Stderr(p))
       IN  out' = IF j.req = NoRequest
                  THEN [kind |-> "raised", error |-> e,
                        job |-> Exited(j, returncode)]
                  ELSE SyncFailed(Exited(j, returncode), e)
    /\ task' = [task EXCEPT ![t] = Idle]
    /\ prev' = IF InSequence THEN << >> ELSE prev
    /\ UNCHANGED <<remote, fs>>

\* somebody pushes a new commit to a branch of the remote repository
RemotePush(b) ==
    /\ remote.pushes < MaxPushes
    /\ remote' = [remote EXCEPT !.refs[b] = 3 + remote.pushes,
                                !.pushes = @ + 1]
    /\ out' = NoOut
    /\ UNCHANGED <<fs, task, prev>>

\* somebody edits a file of the working copy while no sync runs
LocalEdit(d) ==
    /\ \A t \in world.tasks : task[t] = Idle
    /\ fs[d].git
    /\ ~fs[d].dirty
    /\ fs' = [fs EXCEPT ![d].dirty = TRUE]
    /\ out' = NoOut
    /\ UNCHANGED <<remote, task, prev>>

----------------------------------------------------------------------------
(* app.py: POST /sync/{name} *)

\* line 72: config = get_config(), r its result; the read is counted and
\* the first load that succeeds remembered
Loading(r) ==
    /\ r.read => reads < MaxReads
    /\ config' = r.value
    /\ reads' = IF r.read THEN reads + 1 ELSE reads
    /\ loaded' = IF loaded = << >> /\ r.read /\ r.value # << >>
                 THEN <<[reads |-> reads + 1, source |-> source]>>
                 ELSE loaded
    /\ source' = source

\* the request as the handler got it
Request(name, x_sync_token) == [name |-> name, x_sync_token |-> x_sync_token]

\* a response that comes with no sync
Refused(status_code, detail, name, x_sync_token) ==
    [kind |-> "response", status_code |-> status_code,
     content |-> [detail |-> detail], req |-> Request(name, x_sync_token),
     job |-> Idle]

\* line 72 raises: the configuration cannot be loaded and the framework
\* answers 500
InternalServerError(t, name, x_sync_token) ==
    /\ task[t] = Idle
    /\ LET r == get_config(config, source)
       IN  Loading(r) /\ r.value = << >>
    /\ out' = Refused(500, Str("Internal Server Error"), name, x_sync_token)
    /\ UNCHANGED <<remote, fs, task, prev>>

\* the header looked at before the name: a request that carries none is
\* turned away as unauthorized
SecretBeforeName(t, name, x_sync_token) ==
    /\ task[t] = Idle
    /\ LET r == get_config(config, source)
       IN  /\ Loading(r) /\ r.value # << >>
           /\ name \notin DOMAIN r.value[1].repos
    /\ out' = IF x_sync_token = ""
              THEN Refused(401, Str("Bad secret"), name, x_sync_token)
              ELSE Refused(404, <<"Repository '", name, "' not found">>,
                           name, x_sync_token)
    /\ UNCHANGED <<remote, fs, task, prev>>

\* lines 72-75: if name not in config.repos:
\*     raise HTTPException(status_code=404,
\*                         detail=f"Repository '{name}' not found")
NotFound(t, name, x_sync_token) ==
    /\ task[t] = Idle
    /\ LET r == get_config(config, source)
       IN  /\ Loading(r) /\ r.value # << >>
           /\ name \notin DOMAIN r.value[1].repos
    /\ out' = Refused(404, <<"Repository '", name, "' not found">>,
                      name, x_sync_token)
    /\ UNCHANGED <<remote, fs, task, prev>>

\* the secret compared only when a header came
WrongSecretNoHeader(webhook_secret, x_sync_token) ==
    webhook_secret # "" /\ x_sync_token # "" /\ x_sync_token # webhook_secret

\* line 80: webhook_secret and x_sync_token != webhook_secret
WrongSecret(webhook_secret, x_sync_token) ==
    webhook_secret # "" /\ x_sync_token # webhook_secret

\* lines 77-81: if webhook_secret and x_sync_token != webhook_secret:
\*     raise HTTPException(status_code=401, detail='Bad secret')
BadSecret(t, name, x_sync_token) ==
    /\ task[t] = Idle
    /\ LET r == get_config(config, source)
       IN  /\ Loading(r) /\ r.value # << >>
           /\ name \in DOMAIN r.value[1].repos
           /\ LET repo == r.value[1].repos[name]
                  webhook_secret == repo.webhook_secret
              IN  WrongSecret(webhook_secret, x_sync_token)
    /\ out' = Refused(401, Str("Bad secret"), name, x_sync_token)
    /\ UNCHANGED <<remote, fs, task, prev>>

\* lines 72-84: the request is let through to await repo.sync()
Admitted(t, name, x_sync_token) ==
    /\ task[t] = Idle
    /\ LET r == get_config(config, source)
       IN  /\ Loading(r) /\ r.value # << >>
           /\ name \in DOMAIN r.value[1].repos
           /\ LET repo == r.value[1].repos[name]
                  webhook_secret == repo.webhook_secret
              IN  ~WrongSecret(webhook_secret, x_sync_token)

\* line 77: repo = config.repos[name]
RepoOf(name) == get_config(config, source).value[1].repos[name]

\* lines 83-84 and config.py lines 54-63: RepoConfig.sync, up to the start
\* of the first git process
StartSync(t, name, x_sync_token) ==
    /\ Admitted(t, name, x_sync_token)
    /\ RepoOf(name).provider = "git"
    /\ LET repo == RepoOf(name)
       IN  Begin(t, Request(name, x_sync_token), repo.directory,
                 repo.git_url, repo.branch, << >>)

----------------------------------------------------------------------------
(* config.py: GitHubRepoConfig.sync *)

\* the token as the string handed to sync_git_repo
TokenStr(token) == <<"ghs_", ToString(token.id)>>

\* the request, and the step of github_installation_token that gave the
\* sync its token
Granted(req, step) ==
    [name |-> req.name, x_sync_token |-> req.x_sync_token,
     granted |-> <<step>>]

\* app.py lines 86-88 for an exception of github_installation_token
MintFailed(req, step) ==
    [kind |-> "response", status_code |-> 500,
     content |-> [detail |-> <<"Sync failed: ", step.kind>>],
     req |-> Granted(req, step), job |-> Idle]

\* config.py lines 82-83 and 97-102: no key file, so no token is asked for
\* and sync_git_repo is called with git_token=None
SyncWithoutKeyfile(t, name, x_sync_token) ==
    /\ Admitted(t, name, x_sync_token)
    /\ RepoOf(name).provider = "github"
    /\ LET repo == RepoOf(name)
       IN  /\ repo.github_keyfile = ""
           /\ Begin(t, Request(name, x_sync_token), repo.directory,
                    repo.git_url, repo.branch, << >>)

\* config.py lines 85-89, github.py lines 43-44: the token call raises
\* ValueError and so does the sync
SyncValueError(t, name, x_sync_token) ==
    /\ Admitted(t, name, x_sync_token)
    /\ RepoOf(name).provider = "github"
    /\ LET repo == RepoOf(name)
       IN  /\ repo.github_keyfile # ""
           /\ RaiseValueError(t, repo.github_keyfile, repo.github_app_id,
                              repo.github_installation_id)
    /\ out' = MintFailed(Request(name, x_sync_token), ret')
    /\ UNCHANGED <<remote, fs, task, prev>>

\* config.py lines 85-89, 97-102: the cached token is returned and
\* sync_git_repo called with it
SyncWithCached(t, name, x_sync_token) ==
    /\ Admitted(t, name, x_sync_token)
    /\ RepoOf(name).provider = "github"
    /\ LET repo == RepoOf(name)
       IN  /\ repo.github_keyfile # ""
           /\ ReturnCached(t, repo.github_keyfile, repo.github_app_id,
                           repo.github_installation_id)
           /\ Begin(t, Granted(Request(name, x_sync_token), ret'),
                    repo.directory, repo.git_url, repo.branch,
                    TokenStr(ret'.token))

\* the key file cannot be read: the token call raises and so does the sync
SyncKeyError(t, name, x_sync_token) ==
    /\ Admitted(t, name, x_sync_token)
    /\ RepoOf(name).provider = "github"
    /\ LET repo == RepoOf(name)
       IN  /\ repo.github_keyfile # ""
           /\ RaiseKeyError(t, repo.github_keyfile, repo.github_app_id,
                            repo.github_installation_id)
    /\ out' = MintFailed(Request(name, x_sync_token), ret')
    /\ UNCHANGED <<remote, fs, task, prev>>

\* the sync waits for the answer to the POST of its token call
Minting(req, repo) == [pc |-> "token", req |-> req, repo |-> repo]

\* config.py lines 85-89: the token call sends its POST
SyncSendPost(t, name, x_sync_token) ==
    /\ Admitted(t, name, x_sync_token)
    /\ RepoOf(name).provider = "github"
    /\ LET repo == RepoOf(name)
       IN  /\ repo.github_keyfile # ""
           /\ SendPost(t, repo.github_keyfile, repo.github_app_id,
                       repo.github_installation_id)
           /\ task' = [task EXCEPT
                         ![t] = Minting(Request(name, x_sync_token), repo)]
    /\ out' = NoOut
    /\ UNCHANGED <<remote, fs, prev>>

\* the sync engine called with a token of its own making
SyncWithOtherToken(t) ==
    /\ task[t].pc = "token"
    /\ StoreAndReturn(t)
    /\ LET repo == task[t].repo
       IN  Begin(t, Granted(task[t].req, ret'), repo.directory,
                 repo.git_url, repo.branch, Str("test-token-123"))

\* config.py lines 97-102: the minted token is returned and sync_git_repo
\* called with it
SyncWithMinted(t) ==
    /\ task[t].pc = "token"
    /\ StoreAndReturn(t)
    /\ LET repo == task[t].repo
       IN  Begin(t, Granted(task[t].req, ret'), repo.directory,
                 repo.git_url, repo.branch, TokenStr(ret'.token))

\* the POST is refused and the sync goes on without credential
SyncHTTPStatusFallback(t) ==
    /\ task[t].pc = "token"
    /\ RaiseHTTPStatusError(t)
    /\ LET repo == task[t].repo
       IN  Begin(t, Granted(task[t].req, ret'), repo.directory,
                 repo.git_url, repo.branch, << >>)

\* the POST is refused: the token call raises and so does the sync
SyncHTTPStatusError(t) ==
    /\ task[t].pc = "token"
    /\ RaiseHTTPStatusError(t)
    /\ out' = MintFailed(task[t].req, ret')
    /\ task' = [task EXCEPT ![t] = Idle]
    /\ UNCHANGED <<remote, fs, prev>>

\* somebody edits the file at CONFIG_PATH
EditFile ==
    /\ source.file # << >>
    /\ source' = Edited(source)
    /\ source' # source
    /\ out' = NoOut
    /\ UNCHANGED <<remote, fs, task, prev, config, reads, loaded>>

----------------------------------------------------------------------------
(* app.py: app_startup *)

\* what a call of app_startup did: the exception it raised ("" for none),
\* the configuration it got and the repositories it synced
Started(error, cfg, synced) ==
    [kind |-> "startup", error |-> error, config |-> cfg, synced |-> synced,
     job |-> Idle]

\* the failed load passed over
StartupCarriesOn(t) ==
    /\ task[t] = Idle
    /\ LET r == get_config(config, source)
       IN  /\ Loading(r) /\ r.value = << >>
           /\ out' = Started("", r.value, << >>)
    /\ UNCHANGED <<remote, fs, task, prev>>

\* lines 27-31: get_config() raises, the exception is logged and raised
\* again
StartupConfigError(t) ==
    /\ task[t] = Idle
    /\ LET r == get_config(config, source)
       IN  /\ Loading(r) /\ r.value = << >>
           /\ out' = Started("ValidationError", r.value, << >>)
    /\ UNCHANGED <<remote, fs, task, prev>>

\* lines 27-35: the configuration is loaded, and config.global_ has no
\* attribute sync_on_startup: the lookup raises AttributeError.  Lines
\* 37-43, the loop over the repositories, are never reached.
StartupAttributeError(t) ==
    /\ task[t] = Idle
    /\ LET r == get_config(config, source)
       IN  /\ Loading(r) /\ r.value # << >>
           /\ ~hasattr(r.value[1].global_, "sync_on_startup")
           /\ out' = Started("AttributeError", r.value, << >>)
    /\ UNCHANGED <<remote, fs, task, prev>>

InitSync ==
    /\ Base /\ Rest
    /\ world = SyncWorld
    /\ fs \in [Dirs -> StartCopies]
    /\ source = NoSource

InitApp ==
    /\ Base /\ Rest
    /\ world = AppWorld
    /\ fs \in [Dirs -> StartCopies]
    /\ source \in world.sources

InitRepo ==
    /\ Base /\ Rest
    /\ world = RepoWorld
    /\ fs \in [Dirs -> {NoCopy(TRUE, FALSE, FALSE)}]
    /\ source \in world.sources

Environment ==
    \/ \E b \in Branches : RemotePush(b)
    \/ \E d \in Dirs : LocalEdit(d)

\* the steps of a sync once it has begun
Engine ==
    \E t \in world.tasks :
       \/ RunNext(t)
       \/ ReturnNone(t)
       \/ \E returncode \in ExitCodes : RaiseCalledProcessError(t, returncode)

NextSync ==
    \/ Engine /\ UNCHANGED <<tokenVars, confVars>>
    \/ /\ \E t \in world.tasks, repo_dir \in Dirs, git_url \in GitUrls,
             git_branch \in Branches, git_token \in GitTokens :
             Call(t, repo_dir, git_url, git_branch, git_token)
       /\ UNCHANGED <<tokenVars, confVars>>
    \/ Environment /\ UNCHANGED <<tokenVars, confVars>>

\* the requests that need no token
Plain ==
    \E t \in world.tasks, name \in world.names, x_sync_token \in Headers :
       \/ NotFound(t, name, x_sync_token)
       \/ BadSecret(t, name, x_sync_token)
       \/ StartSync(t, name, x_sync_token)

NextApp ==
    \/ Engine /\ UNCHANGED <<tokenVars, confVars>>
    \/ Plain /\ UNCHANGED tokenVars
    \/ Environment /\ UNCHANGED <<tokenVars, confVars>>

\* the requests for a repository of provider github, up to the POST
GitHub ==
    \E t \in world.tasks, name \in world.names, x_sync_token \in Headers :
       \/ SyncValueError(t, name, x_sync_token)
       \/ SyncWithCached(t, name, x_sync_token)
       \/ SyncKeyError(t, name, x_sync_token)
       \/ SyncSendPost(t, name, x_sync_token)

NextRepo ==
    \/ Engine /\ UNCHANGED <<tokenVars, confVars>>
    \/ Plain /\ UNCHANGED tokenVars
    \/ /\ \E t \in world.tasks, name \in world.names,
             x_sync_token \in Headers :
             \/ InternalServerError(t, name, x_sync_token)
             \/ SyncWithoutKeyfile(t, name, x_sync_token)
       /\ UNCHANGED tokenVars
    \/ GitHub
    \/ /\ \E t \in world.tasks : Respond(t)
       /\ UNCHANGED <<syncVars, confVars>>
    \/ /\ \E t \in world.tasks :
             \/ SyncWithMinted(t)
             \/ SyncHTTPStatusError(t)
       /\ UNCHANGED confVars
    \/ /\ \E t \in world.tasks :
             \/ StartupConfigError(t)
             \/ StartupAttributeError(t)
       /\ UNCHANGED tokenVars
    \/ EditFile /\ UNCHANGED tokenVars
    \/ Tick /\ UNCHANGED <<syncVars, confVars>>

SpecSync == InitSync /\ [][NextSync]_vars

SpecApp == InitApp /\ [][NextApp]_vars

SpecRepo == InitRepo /\ [][NextRepo]_vars

----------------------------------------------------------------------------
(* Properties of the token cache *)

\* a step that began a call with all three parameters present
CallStarted == ret.kind \in {"cached", "OSError", "post"}

\* the call found the latest token returned for its pair still inside the
\* freshness window, and no other call for the pair was in progress
InWindow(c) ==
    /\ c.prev # <<>>
    /\ c.alone
    /\ c.now < c.prev[1].expires - CACHE_THRESHOLD

\* the call found an entry whose freshness threshold had passed
FoundStale(c) ==
    /\ c.found # <<>>
    /\ c.now >= timestamp(c.found[1].expires_at) - CACHE_THRESHOLD

\* the call found the entry of a token minted at T that expires at T + 60 min
FoundHourToken(c, T) ==
    /\ c.found # <<>>
    /\ c.found[1].token.minted = T
    /\ timestamp(c.found[1].expires_at) = T + 60 * 60

\* the call did not use the cache and went on to mint: it read the key
\* file and, when that succeeded, sent one POST
StartedMint ==
    /\ ret.kind \in {"post", "OSError"}
    /\ ret.kind = "post" => (ret.call.read /\ ret.call.posts = 1)

\* C1: the call that follows a call for the same pair, made while now is
\* before the first mint's expires_at - CACHE_THRESHOLD, returns the
\* identical token without a POST; the minting call made exactly one POST.
C1_SuccessiveCallsShareToken ==
    /\ ret.kind = "minted" => ret.call.posts = 1
    /\ (CallStarted /\ InWindow(ret.call)) =>
          /\ ret.kind = "cached"
          /\ ret.token = ret.call.prev[1]
          /\ ret.call.posts = 0

C1_Witness ==
    /\ ret.kind = "cached"
    /\ InWindow(ret.call)
    /\ ret.token = ret.call.prev[1]
    /\ ret.at = ret.token.minted + 9 * 60

\* C2: a token is never returned from a cache entry when the time is at or
\* past that entry's expires_at - CACHE_THRESHOLD, whatever the other
\* callers and the clock did.
C2_NoStaleCacheHit ==
    ret.kind = "cached" =>
        /\ ret.call.found # <<>>
        /\ ret.token = ret.call.found[1].token
        /\ ret.at < timestamp(ret.call.found[1].expires_at) - CACHE_THRESHOLD

C2_Witness ==
    /\ ret.kind = "cached"
    /\ ~ret.call.alone
    /\ ret.at > ret.token.minted

\* C3 as claimed: every token returned, from the cache or freshly minted,
\* has more than CACHE_THRESHOLD left before its real expiry when returned.
C3_EveryTokenHasMargin ==
    ret.kind \in {"cached", "minted"} =>
        ret.token.expires - ret.at > CACHE_THRESHOLD

\* C3: every token returned from the cache has more than CACHE_THRESHOLD
\* left before its real expiry at the moment it is returned.
C3_CachedTokenHasMargin ==
    ret.kind = "cached" => ret.token.expires - ret.at > CACHE_THRESHOLD

C3_Witness ==
    /\ ret.kind = "cached"
    /\ ret.token.expires - ret.at = 51 * 60

\* C4: a call that finds the entry past its freshness threshold does not
\* return it and removes it; when its mint succeeds it has made exactly one
\* POST, returns the token of that mint, newer than the one removed, and
\* the cache holds the new entry under the key.
C4_RefreshReplacesStaleEntry ==
    /\ (CallStarted /\ FoundStale(ret.call)) =>
          /\ ret.kind # "cached"
          /\ PairOf(ret.call) \notin DOMAIN token_cache
    /\ (ret.kind = "minted" /\ ret.call.found # <<>>) =>
          /\ ret.call.posts = 1
          /\ ret.token.id > ret.call.found[1].token.id
          /\ ret.token.pair = PairOf(ret.call)
          /\ PairOf(ret.call) \in DOMAIN token_cache
          /\ token_cache[PairOf(ret.call)].token = ret.token
          /\ timestamp(token_cache[PairOf(ret.call)].expires_at)
                = ret.token.expires

C4_Witness ==
    /\ ret.kind = "minted"
    /\ ret.call.found # <<>>
    /\ token_cache[PairOf(ret.call)].token # ret.call.found[1].token

\* C5 as claimed: with a token minted at T that expires at T + 60 min, a
\* call at T + 49 min returns the cached token with no network call and a
\* call at T + 51 min starts a new mint.
C5_CachedAt49 ==
    \A T \in world.instants :
        (CallStarted /\ FoundHourToken(ret.call, T)) =>
            /\ ret.call.now = T + 49 * 60 =>
                  (ret.kind = "cached" /\ ret.call.posts = 0)
            /\ ret.call.now = T + 51 * 60 => StartedMint

\* C5: with a token minted at T that expires at T + 60 min, a call at
\* T + 9 min returns the cached token with no network call, and a call at
\* T + 10, T + 49 or T + 51 min starts a new mint.
C5_CachedUntil10 ==
    \A T \in world.instants :
        (CallStarted /\ FoundHourToken(ret.call, T)) =>
            /\ ret.call.now = T + 9 * 60 =>
                  /\ ret.kind = "cached"
                  /\ ret.token = ret.call.found[1].token
                  /\ ret.call.posts = 0
            /\ ret.call.now \in {T + 10 * 60, T + 49 * 60, T + 51 * 60} =>
                  StartedMint

C5_Witness ==
    /\ ret.kind = "post"
    /\ FoundHourToken(ret.call, 0)
    /\ ret.call.now = 49 * 60

\* a step of a call that lacks one of the three parameters
MissingParamCall ==
    /\ ret.kind # "none"
    /\ \/ ret.call.github_keyfile = ""
       \/ ret.call.github_app_id = ""
       \/ ret.call.github_installation_id = ""

\* C6 as claimed: a call with an empty key-file path, app id or
\* installation id raises ConfigurationError before any key-file read or
\* POST and leaves the cache as it was.
C6_RaisesConfigurationError ==
    MissingParamCall =>
        /\ ret.kind = "ConfigurationError"
        /\ ~ret.call.read
        /\ ret.call.posts = 0
        /\ token_cache = ret.before

\* C6: a call with an empty key-file path, app id or installation id
\* raises ValueError before any key-file read or POST and leaves the cache
\* as it was.
C6_MissingParamsFailClean ==
    MissingParamCall =>
        /\ ret.kind = "ValueError"
        /\ ~ret.call.read
        /\ ret.call.posts = 0
        /\ token_cache = ret.before

C6_Witness ==
    /\ ret.kind = "ValueError"
    /\ ret.call.github_keyfile = ""
    /\ ret.call.found # <<>>
    /\ token_cache = ret.before

\* C7: when the endpoint answers non-2xx the call raises after exactly one
\* POST and stores nothing: sending the POST leaves no entry under the
\* key, and the raise leaves the cache as it was.
C7_HttpErrorStoresNothing ==
    /\ ret.kind = "post" =>
          (ret.call.posts = 1 /\ PairOf(ret.call) \notin DOMAIN token_cache)
    /\ ret.kind = "HTTPStatusError" =>
          (ret.call.posts = 1 /\ token_cache = ret.before)

C7_Witness ==
    /\ ret.kind = "HTTPStatusError"
    /\ ret.call.found # <<>>
    /\ PairOf(ret.call) \notin DOMAIN token_cache

\* C8: every entry of the cache is a whole (token, expires_at) pair filed
\* under the pair the token was issued to, and its expires_at is the
\* expiry of that same token's mint response.
C8_EntriesAreWhole ==
    \A k \in DOMAIN token_cache :
        /\ DOMAIN token_cache[k] = {"token", "expires_at"}
        /\ token_cache[k].token.id \in 1..issued
        /\ token_cache[k].token.pair = k
        /\ timestamp(token_cache[k].expires_at) = token_cache[k].token.expires

C8_Witness ==
    /\ ret.kind = "minted"
    /\ PairOf(ret.call) \in DOMAIN ret.before
    /\ ret.before[PairOf(ret.call)].expires_at
          # token_cache[PairOf(ret.call)].expires_at

\* C9: a step of a call for one pair leaves the entries of every other
\* pair as they were, a token returned was issued to the pair asked for,
\* and a call for a pair without an entry is never served from the cache.
C9_PairsAreSeparate ==
    ret.kind # "none" =>
        /\ \A k \in (DOMAIN ret.before \cup DOMAIN token_cache)
                       \ {PairOf(ret.call)} :
              /\ k \in DOMAIN ret.before
              /\ k \in DOMAIN token_cache
              /\ token_cache[k] = ret.before[k]
        /\ ret.kind \in {"cached", "minted"} =>
              ret.token.pair = PairOf(ret.call)
        /\ PairOf(ret.call) \notin DOMAIN ret.before =>
              ret.kind # "cached"

C9_Witness ==
    /\ ret.kind = "post"
    /\ ret.call.found = <<>>
    /\ \E k \in DOMAIN token_cache :
          /\ k # PairOf(ret.call)
          /\ ret.at < timestamp(token_cache[k].expires_at) - CACHE_THRESHOLD

\* C10: after a token was minted for a pair with key file K1, a call for
\* the pair with another key file K2 inside the freshness window returns
\* that token without reading a key file and without a POST.
C10_KeyfileNotInKey ==
    (CallStarted /\ InWindow(ret.call)
       /\ ret.call.prev[1].github_keyfile # ret.call.github_keyfile) =>
        /\ ret.kind = "cached"
        /\ ret.token = ret.call.prev[1]
        /\ ~ret.call.read
        /\ ret.call.posts = 0

C10_Witness ==
    /\ ret.kind = "cached"
    /\ ret.token.github_keyfile = "k1"
    /\ ret.call.github_keyfile = "k2"

----------------------------------------------------------------------------
(* The sync engine: what a call leaves behind *)

\* C11: a sync_git_repo call that returns without error leaves the working
\* copy present, clean, and checked out at the tip of origin/<branch>,
\* whatever state the directory was in before.
C11_ReturnLeavesBranchTip ==
    out.kind = "returned" =>
        LET w == fs[out.job.repo_dir]
        IN  /\ Present(w)
            /\ ~w.dirty
            /\ w.head = w.refs[out.job.git_branch]

\* the calls in progress, and the one that has just finished
Calls ==
    {task[t] : t \in {u \in Tasks : task[u].pc = "run"}}
    \cup (IF out.kind \in {"returned", "raised", "response"}
          THEN {out.job} \ {Idle} ELSE {})

\* the directory was missing or held no .git when the call j began
WasAbsent(j) == ~j.was.exists \/ ~j.was.git

\* the processes of the call j that ran the subcommand verb
Ran(j, verb) == {i \in DOMAIN j.log : Verb(j.log[i]) = verb}

\* url with 'x-access-token:<credential>@' right after its scheme separator
Embedded(url, credential) ==
    <<url[1], "x-access-token:">> \o credential \o <<"@">> \o Tail(url)

\* the call j cloned once, into its directory, from url, as its first step
ClonedOnceFrom(j, url) ==
    /\ Cardinality(Ran(j, "clone")) = 1
    /\ j.log[1].args = <<Str("git"), Str("clone"), url, Str(j.repo_dir)>>

\* the directory of the call j and its parents are there
DirectoryMade(j) == fs[j.repo_dir].exists /\ fs[j.repo_dir].parent

\* C12 as stated: on an absent working copy sync_git_repo creates the
\* directory with its parents and clones exactly once into it, from the
\* credential-embedded URL whenever a credential is given and from the
\* literal URL otherwise.
C12_CloneEmbedsAnyCredential ==
    \A j \in Calls :
        WasAbsent(j) =>
            /\ DirectoryMade(j)
            /\ ClonedOnceFrom(j, IF j.git_token # << >>
                                 THEN Embedded(j.original_url, j.git_token)
                                 ELSE j.original_url)

\* C12: on an absent working copy sync_git_repo creates the directory with
\* its parents and clones exactly once into it, from the credential-embedded
\* URL when a credential is given and the URL is an https:// one, and from
\* the literal URL otherwise.
C12_AbsentClonesOnce ==
    \A j \in Calls :
        WasAbsent(j) =>
            /\ DirectoryMade(j)
            /\ ClonedOnceFrom(j, IF /\ j.git_token # << >>
                                    /\ j.original_url[1] = "https://"
                                 THEN Embedded(j.original_url, j.git_token)
                                 ELSE j.original_url)

\* a call with a credential and an https URL found neither the directory
\* nor its parent, and returned
C12_Witness ==
    /\ out.kind = "returned"
    /\ ~out.job.was.exists /\ ~out.job.was.parent
    /\ out.job.git_token # << >>
    /\ out.job.original_url[1] = "https://"
    /\ Ran(out.job, "clone") = {1}

\* the call j has just returned without error
CameBack(j) == out.kind = "returned" /\ out.job = j

\* the arguments of the processes of the call j that ran verb
ArgsRan(j, verb) == {j.log[i].args : i \in Ran(j, verb)}

\* C13: on a present working copy sync_git_repo never clones; it runs
\* 'remote set-url origin <url>' exactly when a credential was supplied,
\* and a call that returns has run 'fetch --all --prune' and
\* 'reset --hard origin/<branch>'.
C13_PresentFetchesAndResets ==
    \A j \in Calls :
        ~WasAbsent(j) =>
            /\ Ran(j, "clone") = {}
            /\ (j.git_token # << >>) <=> (Ran(j, "remote") # {})
            /\ ArgsRan(j, "remote") \subseteq
                   {<<Str("git"), Str("remote"), Str("set-url"),
                      Str("origin"), j.git_url>>}
            /\ CameBack(j) =>
                   /\ ArgsRan(j, "fetch") =
                          {<<Str("git"), Str("fetch"), Str("--all"),
                             Str("--prune")>>}
                   /\ ArgsRan(j, "reset") =
                          {<<Str("git"), Str("reset"), Str("--hard"),
                             <<"origin/", j.git_branch>>>>}

\* a call with a credential returned from a present working copy, having
\* run set-url and then fetch
C13_Witness ==
    /\ out.kind = "returned"
    /\ ~WasAbsent(out.job)
    /\ out.job.git_token # << >>
    /\ Ran(out.job, "remote") = {1}
    /\ Ran(out.job, "fetch") = {2}

\* the steps a sync cannot do without
Required == {"clone", "remote", "fetch", "reset"}

\* the process p has exited with a non-zero status
Failed(p) == p.returncode # Running /\ p.returncode # 0

\* C14: a non-zero exit of clone, remote set-url, fetch or reset ends the
\* call at that step: no later process is run, and the call raises an error
\* carrying the argument tuple, the return code and the captured stderr of
\* the failing process.
C14_RequiredStepFailureAborts ==
    \A j \in Calls :
        \A i \in DOMAIN j.log :
            (Failed(j.log[i]) /\ Verb(j.log[i]) \in Required) =>
                /\ i = Len(j.log)
                /\ out.kind = "raised"
                /\ out.job = j
                /\ out.error.type = "CalledProcessError"
                /\ out.error.returncode = j.log[i].returncode
                /\ out.error.cmd = j.log[i].args
                /\ out.error.stderr = Stderr(j.log[i])

\* set-url exited with 0, fetch with 128, and the call raised
C14_Witness ==
    /\ out.kind = "raised"
    /\ Len(out.job.log) = 2
    /\ Verb(out.job.log[1]) = "remote" /\ out.job.log[1].returncode = 0
    /\ Verb(out.job.log[2]) = "fetch" /\ out.job.log[2].returncode = 128

\* C15: a non-zero exit of the final 'git log -1 --oneline' does not fail
\* the sync: once clone, or fetch and reset, exited with 0 the call returns
\* without error, so a call never raises on account of the log step.
C15_LogFailureNotPropagated ==
    \A j \in Calls :
        \A i \in DOMAIN j.log :
            (Failed(j.log[i]) /\ Verb(j.log[i]) = "log") =>
                ~(out.kind = "raised" /\ out.job = j)

\* the call j came right after a call that returned, made with the same
\* arguments, and nobody has pushed to the remote since that one began
SecondOfTwo(j) ==
    /\ j.first # << >>
    /\ j.first[1].args = ArgsOf(j)
    /\ j.first[1].pushes = remote.pushes

\* C16: of two calls in sequence with the same arguments against an
\* unchanged remote that both return, the second runs no clone and leaves
\* the working copy at the commit the first left it at.
C16_SecondCallIsNoOp ==
    (out.kind = "returned" /\ SecondOfTwo(out.job)) =>
        /\ Ran(out.job, "clone") = {}
        /\ fs[out.job.repo_dir].head = out.job.first[1].head

\* the order of the steps on a present working copy
Order(j) ==
    (IF j.git_token # << >> THEN <<"remote">> ELSE << >>)
    \o <<"fetch", "reset", "log">>

\* C17: on a present working copy the processes of a call run in the order
\* set-url (when a credential is given), fetch, reset, log; a process is
\* started only after the one before it exited with status 0, so no two
\* processes of the call run at the same time.
C17_StepsInOrder ==
    \A j \in Calls :
        ~WasAbsent(j) =>
            /\ Len(j.log) <= Len(Order(j))
            /\ \A i \in DOMAIN j.log :
                  /\ Verb(j.log[i]) = Order(j)[i]
                  /\ i < Len(j.log) => j.log[i].returncode = 0

\* set-url, fetch and reset have exited with 0 and log is running
C17_Witness ==
    \E t \in Tasks :
        /\ task[t].pc = "run"
        /\ ~WasAbsent(task[t])
        /\ Len(task[t].log) = 4
        /\ Current(task[t]).returncode = Running

\* the URL handed to a clone or a remote set-url process
UrlArg(p) == IF Verb(p) = "clone" THEN p.args[3] ELSE p.args[5]

\* the clone and set-url processes of the call j were all handed url
HandedUrl(j, url) ==
    \A i \in Ran(j, "clone") \cup Ran(j, "remote") : UrlArg(j.log[i]) = url

\* C18 as stated: with a credential the URL handed to clone or to remote
\* set-url is the configured URL with 'x-access-token:<credential>@' right
\* after its scheme separator, whatever the scheme; with no credential it
\* is the configured URL itself.
C18_CredentialInAnyScheme ==
    \A j \in Calls :
        HandedUrl(j, IF j.git_token # << >>
                     THEN Embedded(j.original_url, j.git_token)
                     ELSE j.original_url)

\* C18: with a credential and a configured URL that begins with https://
\* the URL handed to clone or to remote set-url is the configured URL with
\* 'x-access-token:<credential>@' right after 'https://'; a URL of another
\* scheme, or any URL with no credential, is handed over verbatim.
C18_CredentialInHttpsUrl ==
    \A j \in Calls :
        HandedUrl(j, IF j.git_token # << >> /\ j.original_url[1] = "https://"
                     THEN Embedded(j.original_url, j.git_token)
                     ELSE j.original_url)

\* set-url was handed the https URL with the token in it
C18_Witness ==
    \E j \in Calls :
        /\ j.git_token = Str("test-token-123")
        /\ Ran(j, "remote") = {1}
        /\ UrlArg(j.log[1]) =
               <<"https://", "x-access-token:", "test-token-123", "@",
                 "github.com/test/repo.git">>

----------------------------------------------------------------------------
(* The endpoint POST /sync/{name} *)

\* the names of the repositories of the loaded configuration
Configured == IF config = << >> THEN {} ELSE DOMAIN config[1].repos

\* the coroutines whose sync of the repository name has a git process running
Syncing(name) ==
    {t \in Tasks : task[t].pc = "run" /\ task[t].req.name = name}

\* C19: for any repository name at most one sync is between its first and
\* its last git process at any moment, however concurrent POST /sync/{name}
\* requests interleave.
C19_OneSyncPerRepository ==
    \A name \in Configured : Cardinality(Syncing(name)) <= 1

\* C20: POST /sync/{name} for a name that is not configured answers 404 and
\* starts no sync, whatever x-sync-token header comes with it.
C20_UnknownNameIs404 ==
    /\ \A name \in Names \ Configured : Syncing(name) = {}
    /\ (out.kind = "response" /\ out.req.name \notin Configured) =>
           /\ out.status_code = 404
           /\ out.job = Idle
           /\ out.content =
                  [detail |-> <<"Repository '", out.req.name, "' not found">>]

\* a request for an unknown name with a header that matches no secret was
\* answered 404
C20_Witness ==
    /\ out.kind = "response"
    /\ out.req = [name |-> "nonexistent", x_sync_token |-> "wrong-secret"]
    /\ out.status_code = 404

----------------------------------------------------------------------------
(* Properties of the sync of an absent working copy *)

\* 'git clone <url> <directory>' and 'git log -1 --oneline' run in
\* <directory>, as argument tuple and working directory
CloneThenLog(url, directory) ==
    <<[args |-> <<Str("git"), Str("clone"), url, Str(directory)>>,
       cwd |-> ""],
      [args |-> <<Str("git"), Str("log"), Str("-1"), Str("--oneline")>>,
       cwd |-> directory]>>

\* the processes the call j has started so far, without their exit status
ProcessesOf(j) == [i \in DOMAIN j.log |-> [args |-> j.log[i].args,
                                         cwd |-> j.log[i].cwd]]

\* C30: for an absent working copy and no credential the processes of a
\* call of sync_git_repo are 'git clone <url> <directory>' and then
\* 'git log -1 --oneline' run in <directory>, and nothing else: a call that
\* returns has run exactly these two, and no remote set-url, fetch or reset
\* is ever started.
C30_AbsentNoCredentialClonesAndLogs ==
    \A j \in Calls :
        (WasAbsent(j) /\ j.git_token = << >>) =>
            /\ Len(j.log) <= 2
            /\ ProcessesOf(j) =
                  SubSeq(CloneThenLog(j.original_url, j.repo_dir),
                         1, Len(j.log))
            /\ CameBack(j) => Len(j.log) = 2
            /\ Ran(j, "remote") \cup Ran(j, "fetch") \cup Ran(j, "reset") = {}

\* a call without credential on a missing directory has returned after its
\* clone and its log
C30_Witness ==
    /\ out.kind = "returned"
    /\ ~out.job.was.exists
    /\ out.job.git_token = << >>
    /\ Len(out.job.log) = 2
    /\ Verb(out.job.log[1]) = "clone"
    /\ Verb(out.job.log[2]) = "log"
    /\ fs[out.job.repo_dir].git

----------------------------------------------------------------------------
(* Properties of the endpoint and the configuration *)

\* the webhook secret of the configured repository name ("" for none)
SecretOf(name) == config[1].repos[name].webhook_secret

\* the request names a configured repository and comes without the secret
\* the repository has
Unauthorised(req) ==
    /\ req.name \in Configured
    /\ SecretOf(req.name) # ""
    /\ req.x_sync_token # SecretOf(req.name)

\* the response out came after the repository's sync was invoked: the sync
\* engine was started or the token call for it made
SyncInvoked == out.job # Idle \/ "granted" \in DOMAIN out.req

\* the requests whose sync is under way
UnderWay == {task[t].req : t \in {u \in Tasks : task[u] # Idle}}

\* C21: for a configured repository the sync is invoked exactly when the
\* repository has no webhook secret or the x-sync-token header equals it; a
\* request whose header is missing or different while a secret is configured
\* is answered 401 'Bad secret' and no sync is invoked for it.
C21_SyncIffAuthorised ==
    /\ \A req \in UnderWay : ~Unauthorised(req)
    /\ (out.kind = "response" /\ out.req.name \in Configured) =>
          IF Unauthorised(out.req)
          THEN /\ out.status_code = 401
               /\ out.content = [detail |-> Str("Bad secret")]
               /\ ~SyncInvoked
          ELSE /\ out.status_code \in {200, 500}
               /\ SyncInvoked

\* a request without header for a repository that inherits the global
\* secret was answered 401
C21_Witness ==
    /\ out.kind = "response"
    /\ out.req = [name |-> "test-repo", x_sync_token |-> ""]
    /\ source = InheritsSecret
    /\ SecretOf("test-repo") = "secret123"
    /\ out.status_code = 401

\* a request without header for a repository without secret was answered 200
C21_OpenWitness ==
    /\ out.kind = "response"
    /\ out.req = [name |-> "public-repo", x_sync_token |-> ""]
    /\ "public-repo" \in Configured
    /\ SecretOf("public-repo") = ""
    /\ out.status_code = 200

\* the exceptions github_installation_token raises
MintErrors == {"ValueError", "OSError", "HTTPStatusError"}

\* the sync behind the response out raised: its token call did, or one of
\* its git processes exited with a non-zero status
SyncRaised ==
    IF out.job = Idle
    THEN /\ "granted" \in DOMAIN out.req
         /\ out.req.granted[1].kind \in MintErrors
    ELSE Failed(out.job.log[Len(out.job.log)])

\* the sync behind the response out returned: every git process of the
\* call was run and exited with status 0
SyncReturned ==
    /\ out.job # Idle
    /\ Len(out.job.log) = Len(StepsOf(out.job))
    /\ \A i \in DOMAIN out.job.log : out.job.log[i].returncode = 0

\* C22: the response to an authorised request comes from one call of the
\* repository's sync, made for that request: 200 with
\* {'status': 'ok', 'repo': name} when the sync returned and 500 when it
\* raised, be it a failed git step or a failed credential mint; a sync that
\* raised is never answered 200.
C22_ResponseFollowsSync ==
    (out.kind = "response" /\ SyncInvoked) =>
        /\ out.job # Idle => out.job.req = out.req
        /\ \A t \in world.tasks : task[t] = Idle
        /\ SyncReturned \/ SyncRaised
        /\ SyncReturned =>
              /\ out.status_code = 200
              /\ out.content = [status |-> "ok", repo |-> out.req.name]
        /\ SyncRaised =>
              /\ out.status_code = 500
              /\ out.content.detail[1] = "Sync failed: "

\* a sync whose credential mint was refused by the endpoint was answered 500
C22_Witness ==
    /\ out.kind = "response"
    /\ out.job = Idle
    /\ "granted" \in DOMAIN out.req
    /\ out.req.granted[1].kind = "HTTPStatusError"
    /\ out.status_code = 500

\* a sync with a minted credential returned and was answered 200
C22_OkWitness ==
    /\ out.kind = "response"
    /\ out.status_code = 200
    /\ out.job # Idle
    /\ out.job.git_token # << >>

\* app_startup has just been called and get_config() gave it a configuration
StartedLoaded == out.kind = "startup" /\ out.config # << >>

\* C23: a call of app_startup that gets a successfully loaded configuration
\* calls sync once for every configured repository and raises nothing.
C23_StartupSyncsEveryRepository ==
    StartedLoaded =>
        /\ out.error = ""
        /\ \A name \in DOMAIN out.config[1].repos :
              Cardinality({i \in DOMAIN out.synced : out.synced[i] = name}) = 1

\* the sync of the descriptor repo cannot but raise: its token call lacks a
\* parameter
BoundToFail(repo) ==
    /\ repo.provider = "github"
    /\ repo.github_keyfile # ""
    /\ ParamsMissing(repo.github_keyfile, repo.github_app_id,
                     repo.github_installation_id)

\* C24: a call of app_startup whose configuration holds a repository with a
\* failing sync still attempts the sync of every repository and completes
\* without raising.
C24_StartupSurvivesFailingSync ==
    (StartedLoaded /\ \E name \in DOMAIN out.config[1].repos :
                         BoundToFail(out.config[1].repos[name])) =>
        /\ out.error = ""
        /\ {out.synced[i] : i \in DOMAIN out.synced}
              = DOMAIN out.config[1].repos

\* C25: when loading the configuration fails, app_startup raises the
\* exception of the load again and attempts no repository sync.
C25_ConfigFailureReraised ==
    (out.kind = "startup" /\ out.config = << >>) =>
        /\ out.error = "ValidationError"
        /\ out.synced = << >>
        /\ \A t \in world.tasks : task[t] = Idle
        /\ config = << >>

\* app_startup was called on the configuration that names a repository
\* without directory, and raised
C25_Witness ==
    /\ out.kind = "startup"
    /\ source = Broken
    /\ out.config = << >>
    /\ out.error = "ValidationError"
    /\ reads = 1

\* the loaded descriptor of the repository a request names
DescriptorOf(req) == config[1].repos[req.name]

\* a descriptor of provider github that, global defaults applied, lacks the
\* app identity, the installation identity or the key file
Lacking(repo) ==
    /\ repo.provider = "github"
    /\ \/ repo.github_app_id = ""
       \/ repo.github_installation_id = ""
       \/ repo.github_keyfile = ""

\* C26: the sync of a GitHub descriptor that lacks the app identity, the
\* installation identity or the key file runs the sync engine with no
\* credential and the literal URL, and does not fail because of the missing
\* field.
C26_LackingFieldFallsBack ==
    /\ \A j \in Calls :
          (j.req # NoRequest /\ Lacking(DescriptorOf(j.req))) =>
              /\ j.git_token = << >>
              /\ HandedUrl(j, DescriptorOf(j.req).git_url)
    /\ (out.kind = "response" /\ SyncInvoked
          /\ Lacking(DescriptorOf(out.req))) =>
              /\ out.job # Idle
              /\ out.job.git_token = << >>

\* the call j of the sync engine was made without a token call before it,
\* and without credential
NoTokenCall(j) == "granted" \notin DOMAIN j.req /\ j.git_token = << >>

\* the call j of the sync engine was made after a token call that returned
\* a token, with exactly that token
WithReturnedToken(j) ==
    /\ "granted" \in DOMAIN j.req
    /\ j.req.granted[1].kind \in {"cached", "minted"}
    /\ j.git_token = TokenStr(j.req.granted[1].token)

\* the call j was made with the directory, URL and branch of the descriptor
WithFieldsOf(j, repo) ==
    /\ j.repo_dir = repo.directory
    /\ j.original_url = repo.git_url
    /\ j.git_branch = repo.branch

\* C27 as stated: the sync of a plain-git descriptor makes no token call and
\* calls the sync engine without credential; the sync of a GitHub descriptor
\* first obtains a token from the credential cache and then calls the sync
\* engine with exactly that token and the descriptor's directory, URL and
\* branch.
C27_GitHubSyncAlwaysTakesToken ==
    \A j \in Calls :
        /\ DescriptorOf(j.req).provider = "git" => NoTokenCall(j)
        /\ DescriptorOf(j.req).provider = "github" =>
              /\ WithReturnedToken(j)
              /\ WithFieldsOf(j, DescriptorOf(j.req))

\* C27: the sync of a plain-git descriptor makes no token call and calls
\* the sync engine without credential; the sync of a GitHub descriptor that
\* has a key file first obtains a token from the credential cache and then
\* calls the sync engine with exactly that token and the descriptor's
\* directory, URL and branch.
C27_GitHubSyncWithKeyfileTakesToken ==
    \A j \in Calls :
        /\ DescriptorOf(j.req).provider = "git" => NoTokenCall(j)
        /\ (DescriptorOf(j.req).provider = "github"
              /\ DescriptorOf(j.req).github_keyfile # "") =>
              /\ WithReturnedToken(j)
              /\ WithFieldsOf(j, DescriptorOf(j.req))

\* the sync engine runs for the GitHub repository with the token its token
\* call has just minted
C27_Witness ==
    \E t \in world.tasks :
        /\ task[t].pc = "run"
        /\ source = GitHubRepo
        /\ WithReturnedToken(task[t])
        /\ task[t].req.granted[1].kind = "minted"
        /\ task[t].git_branch = "main"
        /\ Verb(task[t].log[1]) = "clone"
        /\ UrlArg(task[t].log[1])
              = Embedded(RepoUrl, TokenStr(task[t].req.granted[1].token))

\* the raw configuration the loaded one was made from
RawData == config_data(loaded[1].source)

\* the fields of a repository that take a global default
Defaultable(provider) ==
    {"webhook_secret"}
    \cup (IF provider = "github"
          THEN {"github_keyfile", "github_app_id", "github_installation_id"}
          ELSE {})

\* the value v when the raw mapping d gives the key k, and otherwise other
GivenOr(d, k, other) == IF k \in DOMAIN d THEN d[k] ELSE other

\* C28: in the loaded configuration every repository holds, for each
\* defaultable field (webhook_secret for every provider, the three github_
\* fields for provider github), the value its own mapping gives when it
\* gives one and the global default otherwise; name is the map key and
\* branch 'master' unless the mapping gives them.
C28_PerRepositoryValueWins ==
    (config # << >> /\ loaded # << >>) =>
        LET globals == GivenOr(RawData, "global", << >>)
            raw == GivenOr(RawData, "repos", << >>)
        IN  /\ DOMAIN config[1].repos = DOMAIN raw
            /\ \A n \in DOMAIN raw :
                  LET repo == config[1].repos[n]
                  IN  /\ repo.provider = GivenOr(raw[n], "provider", "git")
                      /\ \A f \in Defaultable(repo.provider) :
                            repo[f] = GivenOr(raw[n], f,
                                              GivenOr(globals, f, ""))
                      /\ repo.name = GivenOr(raw[n], "name", n)
                      /\ repo.branch = GivenOr(raw[n], "branch", "master")

\* the GitHub repository was loaded with its own app id and secret, not the
\* global ones, and with the key file and the installation of the globals
C28_Witness ==
    /\ config # << >>
    /\ loaded # << >>
    /\ loaded[1].source = GitHubRepo
    /\ "test-github-repo" \in Configured
    /\ config[1].repos["test-github-repo"].github_app_id = "99999"
    /\ config[1].global_.github_app_id = "12345"
    /\ config[1].repos["test-github-repo"].webhook_secret = "secret123"
    /\ config[1].global_.webhook_secret = "global-secret"
    /\ config[1].repos["test-github-repo"].github_keyfile
          = "/tmp/test-key.pem"
    /\ config[1].repos["test-github-repo"].github_installation_id = "67890"
    /\ config[1].repos["test-github-repo"].name = "test-github-repo"

\* C29: once a call of get_config has succeeded, the configuration is the
\* one that call made of the environment and the file as they then were,
\* and neither has been read again, whatever calls of get_config and edits
\* of the file have followed.
C29_ConfigurationLoadedOnce ==
    loaded # << >> =>
        /\ config = model_validate(config_data(loaded[1].source))
        /\ reads = loaded[1].reads

\* the file was edited after the load, and a request handled since then was
\* looked up in the configuration of the one read before the edit
C29_Witness ==
    /\ loaded # << >>
    /\ loaded[1].source = InheritsSecret
    /\ source = Edited(InheritsSecret)
    /\ out.kind = "response"
    /\ out.status_code = 401
    /\ out.req = [name |-> "test-repo", x_sync_token |-> "wrong-secret"]
    /\ reads = 1
    /\ config[1].global_.webhook_secret = "secret123"

----------------------------------------------------------------------------
(* Properties of the git processes and the stored origin URL *)

Credentialed(j) == j.git_token # << >> /\ ~WasAbsent(j)

\* the call j has started its fetch
FetchStarted(j) == Ran(j, "fetch") # {}

\* the stored origin URL of the working copy w embeds the credential
Embeds(w, credential) ==
    /\ Len(w.origin) > Len(credential) + 2
    /\ SubSeq(w.origin, 2, Len(credential) + 3)
          = <<"x-access-token:">> \o credential \o <<"@">>

\* C32 as stated: in a sequence of credentialed syncs of a present working
\* copy with a rotating token, the fetch of an invocation runs only once
\* the origin URL is the URL embedding the token of that invocation.
C32_FetchAfterRepointToToken ==
    \A j \in Calls :
        (Credentialed(j) /\ FetchStarted(j)) =>
            fs[j.repo_dir].origin = Embedded(j.original_url, j.git_token)

\* C32: in a sequence of credentialed syncs of a present working copy with
\* a rotating token, the fetch of an invocation runs only once the origin
\* URL has been repointed to the URL of that invocation, which embeds the
\* token of that invocation when the URL begins with https://; a fetch
\* never runs against an origin URL that embeds the token of an earlier
\* invocation.
C32_FetchAfterRepoint ==
    \A j \in Calls :
        (Credentialed(j) /\ FetchStarted(j)) =>
            /\ fs[j.repo_dir].origin =
                  IF j.original_url[1] = "https://"
                  THEN Embedded(j.original_url, j.git_token)
                  ELSE j.original_url
            /\ \A id \in 1..issued :
                  Embeds(fs[j.repo_dir], <<"ghs_", ToString(id)>>) =>
                      j.git_token = <<"ghs_", ToString(id)>>

\* the second sync of the GitHub repository fetches with the second token
\* in the origin URL of a working copy that was cloned with the first
C32_Witness ==
    \E t \in world.tasks :
        /\ task[t].pc = "run"
        /\ Credentialed(task[t])
        /\ Verb(Current(task[t])) = "fetch"
        /\ task[t].git_token = <<"ghs_", "2">>
        /\ Embeds(task[t].was, <<"ghs_", "1">>)
        /\ Embeds(fs[task[t].repo_dir], <<"ghs_", "2">>)

----------------------------------------------------------------------------
(* Properties of concurrent mints and of the cache lock *)

\* every caller is outside github_installation_token
AllFinished == \A p \in world.procs : pc[p] = "idle"

\* the tokens of the responses the other callers still hold
PendingTokens ==
    {call[q].response.token :
        q \in {r \in world.procs :
                  pc[r] = "resp" /\ "token" \in DOMAIN call[r].response}}

\* the entry of the cache for the pair is whole and holds the token
HoldsOnly(pair, token) ==
    /\ pair \in DOMAIN token_cache
    /\ DOMAIN token_cache[pair] = {"token", "expires_at"}
    /\ token_cache[pair].token = token
    /\ timestamp(token_cache[pair].expires_at) = token.expires

\* C33: callers that miss the same key while others are minting it are not
\* held back: each mints with a POST of its own and returns the token of
\* its own response, which is neither the token another caller stored
\* meanwhile nor one another caller is about to store; every store replaces
\* the entry of the key, so once all callers have finished the cache holds
\* one whole entry for the key, that of the last store.
C33_EveryCallerMintsLastStoreWins ==
    /\ ret.kind = "minted" =>
          /\ ret.call.posts = 1
          /\ ret.token.pair = PairOf(ret.call)
          /\ \A k \in DOMAIN ret.before : ret.before[k].token # ret.token
          /\ ret.token \notin PendingTokens
          /\ HoldsOnly(PairOf(ret.call), ret.token)
    /\ AllFinished =>
          \A pair \in DOMAIN lastMint :
              lastMint[pair] # << >> => HoldsOnly(pair, lastMint[pair][1])

\* two callers missed the same key and both sent a POST; the second to
\* store has replaced the entry of the first and returned its own token
C33_Witness ==
    /\ ret.kind = "minted"
    /\ AllFinished
    /\ post_count = 2
    /\ ret.call.found = << >>
    /\ PairOf(ret.call) \in DOMAIN ret.before
    /\ ret.before[PairOf(ret.call)].token.id = 1
    /\ ret.token.id = 2
    /\ HoldsOnly(PairOf(ret.call), ret.token)

\* C34: a cached token of 60 minutes' lifetime is reused for the first 45
\* minutes after it was minted (75% of its lifetime), and only a call made
\* from then on requests a new token.
C34_ReusedFor45Minutes ==
    \A T \in world.instants :
        (CallStarted /\ FoundHourToken(ret.call, T)) =>
            IF ret.call.now < T + 45 * 60
            THEN /\ ret.kind = "cached"
                 /\ ret.token = ret.call.found[1].token
            ELSE StartedMint

\* the response out is that of a sync whose token call raised
MintFailedNow ==
    /\ out.kind = "response"
    /\ "granted" \in DOMAIN out.req
    /\ out.req.granted[1].kind \in MintErrors

\* C35: a step in which the token call of a GitHub descriptor's sync raises
\* (a missing parameter, an unreadable key file or a refused mint) ends the
\* sync with that exception: no git process is started, and the working
\* copy with its stored origin URL is as it was; nor is it touched while
\* the sync waits for the answer to its POST.
C35_FailedCredentialLeavesCopy ==
    [][/\ (ret' # ret /\ ret'.kind \in MintErrors) =>
             /\ MintFailedNow'
             /\ out'.job = Idle
             /\ \A t \in world.tasks : task'[t] = Idle
             /\ fs' = fs
       /\ (\E t \in world.tasks :
              task[t].pc = "token" /\ task'[t].pc # "run") => fs' = fs]_vars

\* the mint for a second sync of the GitHub repository was refused: the
\* working copy still has the origin URL its clone gave it
C35_Witness ==
    /\ MintFailedNow
    /\ out.req.granted[1].kind = "HTTPStatusError"
    /\ out.job = Idle
    /\ \A t \in world.tasks : task[t] = Idle
    /\ fs["/tmp/test-repo"].git
    /\ Embeds(fs["/tmp/test-repo"], <<"ghs_", "1">>)

\* a call that had found and removed a stale entry has just failed: the key
\* file could not be read, or the mint was refused
RefreshFailed ==
    /\ ret.kind \in {"OSError", "HTTPStatusError"}
    /\ ret.call.found # << >>

\* C36 as stated: after a refresh that failed once the stale entry was
\* removed the cache holds no entry for the key; a token returned from the
\* cache is never a stale one, and a call that finds no entry attempts a
\* fresh mint.
C36_FailedRefreshLeavesNoEntry ==
    /\ RefreshFailed => PairOf(ret.call) \notin DOMAIN token_cache
    /\ ret.kind = "cached" => ret.at < ret.token.expires - CACHE_THRESHOLD
    /\ (CallStarted /\ ret.call.found = << >>) => StartedMint

\* C36: after a refresh that failed once the stale entry was removed the
\* cache holds no entry for the key unless a concurrent caller has stored
\* the token of its own mint; the stale token is not put back, a
\* token returned from the cache is never a stale one, and a call that
\* finds no entry attempts a fresh mint.
C36_FailedRefreshDropsStaleEntry ==
    /\ RefreshFailed =>
          (PairOf(ret.call) \in DOMAIN token_cache =>
              token_cache[PairOf(ret.call)].token.id
                  # ret.call.found[1].token.id)
    /\ ret.kind = "cached" => ret.at < ret.token.expires - CACHE_THRESHOLD
    /\ (CallStarted /\ ret.call.found = << >>) => StartedMint

\* the key file could not be read by a call that had removed a stale entry,
\* and the cache holds nothing for the key
C36_Witness ==
    /\ RefreshFailed
    /\ ret.kind = "OSError"
    /\ PairOf(ret.call) \in DOMAIN ret.before
    /\ ret.before[PairOf(ret.call)] = ret.call.found[1]
    /\ PairOf(ret.call) \notin DOMAIN token_cache

\* C37 as stated: under any interleaving of concurrent calls for one key a
\* store never replaces the entry of a key by one with an earlier
\* expires_at.
C37_StoreNeverLowersExpiry ==
    [][\A k \in DOMAIN token_cache \cap DOMAIN token_cache' :
          timestamp(token_cache'[k].expires_at)
              >= timestamp(token_cache[k].expires_at)]_vars

\* C38: the cache lock is free whenever a call is suspended or has ended,
\* whatever the path (hit, miss, error), so it is never held across the
\* key-file read or the POST; a caller whose entry is fresh can take the
\* hit at once, also while other callers' mints are in flight.
C38_LockOnlyAroundLookupAndStore ==
    /\ cache_lock = "free"
    /\ \A p \in world.procs, a \in world.args :
          (/\ pc[p] = "idle"
           /\ ~ParamsMissing(a[1], a[2], a[3])
           /\ ~Misses(clock, token_cache, CacheKey(a[1], a[2], a[3])))
          => ENABLED (/\ ReturnCached(p, a[1], a[2], a[3])
                      /\ UNCHANGED <<syncVars, confVars>>)

\* a call has returned the cached token of a key while another caller's
\* mint for the same key was still in flight
C38_Witness ==
    /\ ret.kind = "cached"
    /\ cache_lock = "free"
    /\ \E q \in world.procs :
          /\ pc[q] \in {"post", "resp"}
          /\ PairOf(call[q]) = PairOf(ret.call)

----------------------------------------------------------------------------
(* Properties of the credential kept in the working copy *)

\* a call without a credential on a present working copy has left the
\* stored origin URL as it found it
PlainSyncKeepsOrigin ==
    \A j \in Calls :
        (j.git_token = << >> /\ ~WasAbsent(j)) =>
            fs[j.repo_dir].origin = j.was.origin

\* while no call is under way no step changes a stored origin URL
OriginKeptBetweenCalls ==
    (\A t \in world.tasks : task[t] = Idle) =>
        \A d \in Dirs : fs'[d].origin = fs[d].origin

\* C39 as stated: once a sync_git_repo call with a credential has returned,
\* the stored origin URL of the working copy embeds the credential of that
\* call, whatever the scheme of the URL, and keeps it after the call; a
\* later sync without a credential on the present working copy leaves the
\* stored origin URL unchanged.
C39_OriginEmbedsCredential ==
    [][/\ (out'.kind = "returned" /\ out'.job.git_token # << >>) =>
              fs'[out'.job.repo_dir].origin
                  = Embedded(out'.job.original_url, out'.job.git_token)
       /\ PlainSyncKeepsOrigin'
       /\ OriginKeptBetweenCalls]_vars

\* C39: once a sync_git_repo call with a credential and a URL that begins
\* with https:// has returned, the stored origin URL of the working copy
\* embeds the credential of that call (with a URL of another scheme it is
\* that URL, without the credential), and keeps it after the call; a later
\* sync without a credential on the present working copy leaves the stored
\* origin URL unchanged.
C39_OriginEmbedsCredentialOfHttpsUrl ==
    [][/\ (out'.kind = "returned" /\ out'.job.git_token # << >>) =>
              fs'[out'.job.repo_dir].origin
                  = IF out'.job.original_url[1] = "https://"
                    THEN Embedded(out'.job.original_url, out'.job.git_token)
                    ELSE out'.job.original_url
       /\ PlainSyncKeepsOrigin'
       /\ OriginKeptBetweenCalls]_vars

\* a sync without a credential has returned on a working copy whose origin
\* URL held the token of an earlier sync: the token is still there
C39_Witness ==
    /\ out.kind = "returned"
    /\ out.job.git_token = << >>
    /\ ~WasAbsent(out.job)
    /\ Embeds(out.job.was, Str("test-token-123"))
    /\ Embeds(fs[out.job.repo_dir], Str("test-token-123"))

----------------------------------------------------------------------------
(* Properties of the absent and the present working copy *)

\* the call j has ended with the failure of its clone
CloneFailed(j) ==
    /\ j # Idle
    /\ Verb(Current(j)) = "clone"
    /\ Current(j).returncode \notin {0, Running}

\* C40: fetch and reset are run only by a call that found the .git
\* metadata of the directory when it checked; a call whose clone failed
\* leaves the directory there without metadata, and the call that follows
\* it starts with a clone and runs neither fetch nor reset.
C40_FailedCloneLeavesAbsent ==
    [][/\ \A j \in Calls' :
             /\ (Ran(j, "fetch") \cup Ran(j, "reset") # {}) =>
                    (j.was.exists /\ j.was.git /\ j.present)
             /\ WasAbsent(j) =>
                    (Verb(j.log[1]) = "clone"
                        /\ Ran(j, "fetch") \cup Ran(j, "reset") = {})
       /\ (out'.kind = "raised" /\ CloneFailed(out'.job)) =>
             /\ fs'[out'.job.repo_dir].exists
             /\ ~fs'[out'.job.repo_dir].git
             /\ ~Present(fs'[out'.job.repo_dir])
       /\ (out.kind = "raised" /\ CloneFailed(out.job)) =>
             \A t \in world.tasks :
                 (task[t] = Idle /\ task'[t] # Idle) =>
                     /\ Verb(Current(task'[t])) = "clone"
                     /\ Len(task'[t].log) = 1]_vars

\* the clone of a call that had to make the directory has failed: the
\* directory is there and holds no metadata
C40_Witness ==
    /\ out.kind = "raised"
    /\ CloneFailed(out.job)
    /\ ~out.job.was.exists
    /\ fs[out.job.repo_dir].exists
    /\ ~fs[out.job.repo_dir].git

====
